---- MODULE Spec2Model ----
(***************************************************************************)
(* FraudDetect Pro: the chatbot (backend/app/chatbot_nlp.py), the model    *)
(* registry (backend/app/ml_models.py) and the HTTP routes that use them   *)
(* (backend/app/main.py, backend/app/routers/chatbot.py).                  *)
(*                                                                         *)
(* Units.  A money amount is an integer number of cents (the amount regex  *)
(* admits at most two decimals).  A score, a floor or a confidence is an   *)
(* integer number of basis points: 10000 is 1.0, 100 is 0.01.              *)
(* Text is a TLA+ string; Python's None is the sentinel None for text and  *)
(* NoAmount for numbers.                                                   *)
(***************************************************************************)
EXTENDS Integers, Sequences, FiniteSets, TLC

VARIABLES
    started,            \* main.py: the startup hook has run
    _models,            \* ml_models._models: algorithm -> bundle (NoBundle when the key is absent)
    _active_algorithm,  \* ml_models._active_algorithm
    artifacts,          \* the files <algorithm>_model.pkl under MODEL_DIR
    fits,               \* number of classifiers fitted so far (names each new bundle)
    session_state,      \* chatbot.session_state: user id -> session (NoSession when absent)
    last,               \* what the last operation did and returned to its caller
    probe,              \* one (user, message) pair and the branch it was first routed to
    rules_call,         \* one call of _apply_fraud_business_rules: inputs and results
    threads             \* a writer and a reader of the registry, each at a step of its call

vars ==
    <<started, _models, _active_algorithm, artifacts, fits, session_state, last, probe,
      rules_call, threads>>

registry_vars == <<started, _models, _active_algorithm, artifacts, fits>>

(***************************************************************************)
(* Bounds                                                                  *)
(***************************************************************************)
MaxFits == 1

(***************************************************************************)
(* Python values                                                           *)
(***************************************************************************)
None == "<None>"
NoAmount == -1

Truthy(s) == s # None /\ s # ""

Max(a, b) == IF a >= b THEN a ELSE b
Min(a, b) == IF a <= b THEN a ELSE b

(***************************************************************************)
(* Text: str.lower(), the `in` substring test                              *)
(***************************************************************************)
UpperCase == "ABCDEFGHIJKLMNOPQRSTUVWXYZ"
LowerCase == "abcdefghijklmnopqrstuvwxyz"

CharAt(s, i) == SubSeq(s, i, i)

LowerChar(c) ==
    IF \E k \in 1..26 : CharAt(UpperCase, k) = c
    THEN CharAt(LowerCase, CHOOSE k \in 1..26 : CharAt(UpperCase, k) = c)
    ELSE c

RECURSIVE lower(_)
lower(s) == IF Len(s) = 0 THEN "" ELSE LowerChar(CharAt(s, 1)) \o lower(SubSeq(s, 2, Len(s)))

\* Python: kw in text
Contains(text, kw) ==
    \E i \in 1..(Len(text) - Len(kw) + 1) : SubSeq(text, i, i + Len(kw) - 1) = kw

AnyIn(text, kws) == \E kw \in kws : Contains(text, kw)

(***************************************************************************)
(* ModelRegistry: backend/app/ml_models.py                                 *)
(***************************************************************************)
Algorithms == {"ann", "svm", "knn"}

\* the columns of the dataset without 'Class' (preprocess_and_split: list(X.columns))
FeatureOrder ==
    <<"Time", "V1", "V2", "V3", "V4", "V5", "V6", "V7", "V8", "V9", "V10", "V11", "V12",
      "V13", "V14", "V15", "V16", "V17", "V18", "V19", "V20", "V21", "V22", "V23", "V24",
      "V25", "V26", "V27", "V28", "Amount">>

NoBundle == [present |-> FALSE]

\* the tuple (model, scaler, feature_order, metrics) produced by the fit numbered g
Bundle(algorithm, g) ==
    [present |-> TRUE, model |-> g, scaler |-> g, feature_order |-> FeatureOrder,
     metrics |-> [algorithm |-> algorithm, fit |-> g]]

NoFile == [file |-> "missing"]
CorruptFile == [file |-> "corrupt"]
\* save_model: the dict model_data that pickle.dump writes for a bundle
model_data(b) ==
    [model |-> b.model, scaler |-> b.scaler, feature_order |-> b.feature_order,
     metrics |-> b.metrics]

PickleFile(b) == [file |-> "pickle", data |-> model_data(b)]

\* what can go wrong in one training run: nothing; an exception before the
\* bundle is stored (the dataset, the fit or the evaluation); open() of the
\* artifact; pickle.dump into the opened artifact
TrainFaults == {"none", "fit", "save_open", "save_dump"}

\* the faults after which a new bundle has been built
FaultBuildsBundle(fault) == fault \in {"none", "save_open", "save_dump"}

\* the process-wide registry state: _models, _active_algorithm, the artifact files
Registry ==
    [models |-> _models, active |-> _active_algorithm, artifacts |-> artifacts, fits |-> fits]

load_model(reg, algorithm) ==
    IF algorithm \notin Algorithms THEN NoBundle
    ELSE IF reg.artifacts[algorithm].file = "pickle"
    THEN \* pickle.load, then the tuple of the four entries of model_data
         [present |-> TRUE,
          model |-> reg.artifacts[algorithm].data.model,
          scaler |-> reg.artifacts[algorithm].data.scaler,
          feature_order |-> reg.artifacts[algorithm].data.feature_order,
          metrics |-> reg.artifacts[algorithm].data.metrics]
    ELSE \* no file, or pickle.load raises
         NoBundle

\* a variant that never looks for a persisted artifact
train_algorithm_uncached(reg, algorithm, force_retrain, fault) ==
    LET b == Bundle(algorithm, reg.fits + 1)
    IN  IF fault = "fit" \/ algorithm \notin Algorithms
        THEN [ok |-> FALSE, data_loaded |-> TRUE, reg |-> reg]
        ELSE IF fault = "save_open"
        THEN [ok |-> FALSE, data_loaded |-> TRUE,
              reg |-> [reg EXCEPT !.models[algorithm] = b, !.fits = @ + 1]]
        ELSE IF fault = "save_dump"
        THEN [ok |-> FALSE, data_loaded |-> TRUE,
              reg |-> [reg EXCEPT !.models[algorithm] = b,
                                  !.artifacts[algorithm] = CorruptFile, !.fits = @ + 1]]
        ELSE [ok |-> TRUE, data_loaded |-> TRUE,
              reg |-> [reg EXCEPT !.models[algorithm] = b,
                                  !.artifacts[algorithm] = PickleFile(b), !.fits = @ + 1]]

\* a variant that discards the bundle in memory when the training run begins
train_algorithm_discards(reg, algorithm, force_retrain, fault) ==
    LET loaded == IF force_retrain THEN NoBundle ELSE load_model(reg, algorithm)
        b == Bundle(algorithm, reg.fits + 1)
    IN  IF ~force_retrain /\ loaded # NoBundle
        THEN [ok |-> TRUE, data_loaded |-> FALSE,
              reg |-> [reg EXCEPT !.models[algorithm] = loaded]]
        ELSE IF algorithm \notin Algorithms
        THEN [ok |-> FALSE, data_loaded |-> TRUE, reg |-> reg]
        ELSE IF fault = "fit"
        THEN [ok |-> FALSE, data_loaded |-> TRUE,
              reg |-> [reg EXCEPT !.models[algorithm] = NoBundle]]
        ELSE IF fault = "save_open"
        THEN [ok |-> FALSE, data_loaded |-> TRUE,
              reg |-> [reg EXCEPT !.models[algorithm] = b, !.fits = @ + 1]]
        ELSE IF fault = "save_dump"
        THEN [ok |-> FALSE, data_loaded |-> TRUE,
              reg |-> [reg EXCEPT !.models[algorithm] = b,
                                  !.artifacts[algorithm] = CorruptFile, !.fits = @ + 1]]
        ELSE [ok |-> TRUE, data_loaded |-> TRUE,
              reg |-> [reg EXCEPT !.models[algorithm] = b,
                                  !.artifacts[algorithm] = PickleFile(b), !.fits = @ + 1]]

\* a variant in which a successful training run also activates the algorithm
train_algorithm_activates(reg, algorithm, force_retrain, fault) ==
    LET loaded == IF force_retrain THEN NoBundle ELSE load_model(reg, algorithm)
        b == Bundle(algorithm, reg.fits + 1)
    IN  IF ~force_retrain /\ loaded # NoBundle
        THEN [ok |-> TRUE, data_loaded |-> FALSE,
              reg |-> [reg EXCEPT !.models[algorithm] = loaded, !.active = algorithm]]
        ELSE IF fault = "fit" \/ algorithm \notin Algorithms
        THEN [ok |-> FALSE, data_loaded |-> TRUE, reg |-> reg]
        ELSE IF fault = "save_open"
        THEN [ok |-> FALSE, data_loaded |-> TRUE,
              reg |-> [reg EXCEPT !.models[algorithm] = b, !.fits = @ + 1]]
        ELSE IF fault = "save_dump"
        THEN [ok |-> FALSE, data_loaded |-> TRUE,
              reg |-> [reg EXCEPT !.models[algorithm] = b,
                                  !.artifacts[algorithm] = CorruptFile, !.fits = @ + 1]]
        ELSE [ok |-> TRUE, data_loaded |-> TRUE,
              reg |-> [reg EXCEPT !.models[algorithm] = b,
                                  !.artifacts[algorithm] = PickleFile(b), !.fits = @ + 1,
                                  !.active = algorithm]]

\* the result of train_algorithm and the registry it leaves behind;
\* data_loaded: load_and_preprocess_data was called (the try block was entered)
train_algorithm(reg, algorithm, force_retrain, fault) ==
    LET loaded == IF force_retrain THEN NoBundle ELSE load_model(reg, algorithm)
        b == Bundle(algorithm, reg.fits + 1)
    IN  IF ~force_retrain /\ loaded # NoBundle
        THEN \* _models[algorithm] = loaded; return True
             [ok |-> TRUE, data_loaded |-> FALSE,
              reg |-> [reg EXCEPT !.models[algorithm] = loaded]]
        ELSE IF fault = "fit" \/ algorithm \notin Algorithms
        THEN \* an exception before "Store in memory": return False
             [ok |-> FALSE, data_loaded |-> TRUE, reg |-> reg]
        ELSE IF fault = "save_open"
        THEN \* stored in memory, then open() of the artifact raises
             [ok |-> FALSE, data_loaded |-> TRUE,
              reg |-> [reg EXCEPT !.models[algorithm] = b, !.fits = @ + 1]]
        ELSE IF fault = "save_dump"
        THEN \* stored in memory, then the artifact is truncated and pickle.dump raises
             [ok |-> FALSE, data_loaded |-> TRUE,
              reg |-> [reg EXCEPT !.models[algorithm] = b,
                                  !.artifacts[algorithm] = CorruptFile, !.fits = @ + 1]]
        ELSE [ok |-> TRUE, data_loaded |-> TRUE,
              reg |-> [reg EXCEPT !.models[algorithm] = b,
                                  !.artifacts[algorithm] = PickleFile(b), !.fits = @ + 1]]

\* the training run is within the bound on fits
WithinFits(reg, algorithm, force_retrain, fault) ==
    (FaultBuildsBundle(fault) /\ algorithm \in Algorithms
       /\ (force_retrain \/ load_model(reg, algorithm) = NoBundle))
    => reg.fits < MaxFits

\* a variant without the membership test: an identifier that has no bundle goes
\* to train_algorithm, which fails on it after loading the dataset
set_active_algorithm_unvalidated(reg, algorithm, fault) ==
    IF algorithm \notin Algorithms
    THEN [ok |-> FALSE, train_called |-> TRUE, data_loaded |-> TRUE, reg |-> reg]
    ELSE IF reg.models[algorithm] = NoBundle
    THEN LET t == train_algorithm(reg, algorithm, FALSE, fault)
         IN  IF ~t.ok
             THEN [ok |-> FALSE, train_called |-> TRUE, data_loaded |-> t.data_loaded,
                   reg |-> t.reg]
             ELSE [ok |-> TRUE, train_called |-> TRUE, data_loaded |-> t.data_loaded,
                   reg |-> [t.reg EXCEPT !.active = algorithm]]
    ELSE [ok |-> TRUE, train_called |-> FALSE, data_loaded |-> FALSE,
          reg |-> [reg EXCEPT !.active = algorithm]]

\* a variant that moves the active pointer before the bundle is ensured
set_active_algorithm_pointer_first(reg, algorithm, fault) ==
    IF algorithm \notin Algorithms
    THEN [ok |-> FALSE, train_called |-> FALSE, data_loaded |-> FALSE, reg |-> reg]
    ELSE IF reg.models[algorithm] = NoBundle
    THEN LET t == train_algorithm(reg, algorithm, FALSE, fault)
         IN  [ok |-> t.ok, train_called |-> TRUE, data_loaded |-> t.data_loaded,
              reg |-> [t.reg EXCEPT !.active = algorithm]]
    ELSE [ok |-> TRUE, train_called |-> FALSE, data_loaded |-> FALSE,
          reg |-> [reg EXCEPT !.active = algorithm]]

\* the result of set_active_algorithm and the registry it leaves behind;
\* train_called: train_algorithm was invoked, data_loaded: it went to the dataset
set_active_algorithm(reg, algorithm, fault) ==
    IF algorithm \notin Algorithms
    THEN [ok |-> FALSE, train_called |-> FALSE, data_loaded |-> FALSE, reg |-> reg]
    ELSE IF reg.models[algorithm] = NoBundle
    THEN LET t == train_algorithm(reg, algorithm, FALSE, fault)
         IN  IF ~t.ok
             THEN [ok |-> FALSE, train_called |-> TRUE, data_loaded |-> t.data_loaded,
                   reg |-> t.reg]
             ELSE [ok |-> TRUE, train_called |-> TRUE, data_loaded |-> t.data_loaded,
                   reg |-> [t.reg EXCEPT !.active = algorithm]]
    ELSE [ok |-> TRUE, train_called |-> FALSE, data_loaded |-> FALSE,
          reg |-> [reg EXCEPT !.active = algorithm]]

is_ready(reg, algorithm) ==
    LET algo == IF Truthy(algorithm) THEN algorithm ELSE reg.active
    IN  algo \in Algorithms /\ reg.models[algo] # NoBundle

get_metrics(reg, algorithm) ==
    LET algo == IF Truthy(algorithm) THEN algorithm ELSE reg.active
    IN  IF ~is_ready(reg, algo) THEN [error |-> "not loaded", algo |-> algo]
        ELSE reg.models[algo].metrics

\* a variant that lists the algorithms with a bundle in memory only
get_available_algorithms_loaded(reg) ==
    {algo \in Algorithms : reg.models[algo] # NoBundle}

get_available_algorithms(reg) ==
    {algo \in Algorithms :
        reg.artifacts[algo].file # "missing" \/ reg.models[algo] # NoBundle}

(***************************************************************************)
(* Python values passed in untyped parameters (call_ml_api's method, data) *)
(***************************************************************************)
PyNone == [type |-> "NoneType"]
PyStr(s) == [type |-> "str", value |-> s]
\* a dict: its items, and the keys whose value is not a number
PyDict(items, bad) == [type |-> "dict", items |-> items, bad |-> bad]

PyTruthy(v) ==
    CASE v.type = "NoneType" -> FALSE
      [] v.type = "str" -> v.value # ""
      [] v.type = "dict" -> DOMAIN v.items # {}

(***************************************************************************)
(* ml_models.predict_fraud                                                 *)
(***************************************************************************)
ProbaGrid == <<0, 50, 100, 250, 500, 2500, 6000, 9900>>

Abs(x) == IF x < 0 THEN -x ELSE x

RECURSIVE SumAbs(_)
SumAbs(row) == IF Len(row) = 0 THEN 0 ELSE Abs(Head(row)) + SumAbs(Tail(row))

\* scaler.transform followed by model.predict_proba(...)[0, 1]: some fixed
\* function of the fitted model, the fitted scaler and the row
predict_proba(model, scaler, row) ==
    ProbaGrid[((model + scaler + SumAbs(row)) % Len(ProbaGrid)) + 1]

\* row = [payload.get(f, 0.0) for f in feature_order]
feature_row(feature_order, payload) ==
    [k \in 1..Len(feature_order) |->
        IF feature_order[k] \in DOMAIN payload.items
        THEN payload.items[feature_order[k]] ELSE 0]

\* a variant that answers with a default score when the model is not loaded
predict_fraud_default(reg, payload, algorithm) ==
    LET algo == IF Truthy(algorithm) THEN algorithm ELSE reg.active
    IN  IF ~is_ready(reg, algo)
        THEN [raised |-> FALSE, score |-> 0, algorithm |-> algo, confidence |-> 10000]
        ELSE IF payload.type # "dict"
        THEN [raised |-> TRUE, exception |-> "AttributeError", error |-> "no attribute get",
              algo |-> algo]
        ELSE LET b == reg.models[algo]
                 row == feature_row(b.feature_order, payload)
             IN  IF \E k \in 1..Len(b.feature_order) : b.feature_order[k] \in payload.bad
                 THEN [raised |-> TRUE, exception |-> "ValueError",
                       error |-> "could not convert", algo |-> algo]
                 ELSE LET proba == predict_proba(b.model, b.scaler, row)
                      IN  [raised |-> FALSE, score |-> proba, algorithm |-> algo,
                           confidence |-> IF proba > 5000 THEN proba ELSE 10000 - proba]

\* what predict_fraud returns, or the exception it raises
predict_fraud(reg, payload, algorithm) ==
    LET algo == IF Truthy(algorithm) THEN algorithm ELSE reg.active
    IN  IF ~is_ready(reg, algo)
        THEN [raised |-> TRUE, exception |-> "RuntimeError", error |-> "not loaded",
              algo |-> algo]
        ELSE IF payload.type # "dict"
        THEN \* payload.get: 'str' object has no attribute 'get'
             [raised |-> TRUE, exception |-> "AttributeError", error |-> "no attribute get",
              algo |-> algo]
        ELSE LET b == reg.models[algo]
                 row == feature_row(b.feature_order, payload)
             IN  IF \E k \in 1..Len(b.feature_order) : b.feature_order[k] \in payload.bad
                 THEN \* scaler.transform on a row that holds a non-number
                      [raised |-> TRUE, exception |-> "ValueError",
                       error |-> "could not convert", algo |-> algo]
                 ELSE LET proba == predict_proba(b.model, b.scaler, row)
                      IN  [raised |-> FALSE, score |-> proba, algorithm |-> algo,
                           confidence |-> IF proba > 5000 THEN proba ELSE 10000 - proba]

(***************************************************************************)
(* Decisions                                                               *)
(***************************************************************************)
\* config.py: ALLOW_THRESHOLD 0.3 and CHALLENGE_THRESHOLD 0.7 when the
\* environment sets neither
allow_threshold == 3000
challenge_threshold == 7000

\* policy.py
apply_policy(score) ==
    IF score < allow_threshold
    THEN [decision |-> "allow", reasons |-> <<"score_below_allow_threshold">>]
    ELSE IF score < challenge_threshold
    THEN [decision |-> "challenge",
          reasons |-> <<"score_between_allow_and_challenge_threshold">>]
    ELSE [decision |-> "block", reasons |-> <<"score_above_challenge_threshold">>]

\* a variant whose allow band includes 0.01
ChatDecision_allows_base(score) ==
    IF score <= 100 THEN "allow" ELSE IF score < 500 THEN "challenge" ELSE "block"

\* chatbot_nlp.py: score < 0.01 allow, < 0.05 challenge, else block
ChatDecision(score) ==
    IF score < 100 THEN "allow" ELSE IF score < 500 THEN "challenge" ELSE "block"

\* main.py: score < 0.25 allow, < 0.60 challenge, else block
HttpDecision(score) ==
    IF score < 2500 THEN "allow" ELSE IF score < 6000 THEN "challenge" ELSE "block"

(***************************************************************************)
(* Entity extraction and keyword tests of FraudDetectionChatbot            *)
(***************************************************************************)
Digits == "0123456789"

IsDigit(c) == \E k \in 1..10 : CharAt(Digits, k) = c
DigitValue(c) == (CHOOSE k \in 1..10 : CharAt(Digits, k) = c) - 1
IsLetter(c) == \E k \in 1..26 : CharAt(LowerCase, k) = c \/ CharAt(UpperCase, k) = c
\* \w
IsWordChar(c) == IsLetter(c) \/ IsDigit(c) \/ c = "_"

StartsAt(text, i, pre) ==
    i >= 1 /\ i + Len(pre) - 1 <= Len(text) /\ SubSeq(text, i, i + Len(pre) - 1) = pre

\* the regex character classes \d, [a-zA-Z] and \s
InClass(c, class) ==
    CASE class = "d" -> IsDigit(c)
      [] class = "a" -> IsLetter(c)
      [] class = "s" -> c = " "

\* the end of the longest run of characters of a class that starts at p (p - 1 if none)
RunEnd(text, p, class) ==
    IF \E q \in p..Len(text) : ~InClass(CharAt(text, q), class)
    THEN (CHOOSE q \in p..Len(text) :
              /\ ~InClass(CharAt(text, q), class)
              /\ \A r \in p..(q - 1) : InClass(CharAt(text, r), class)) - 1
    ELSE Len(text)

RECURSIVE ParseInt(_)
ParseInt(ds) ==
    IF Len(ds) = 0 THEN 0
    ELSE 10 * ParseInt(SubSeq(ds, 1, Len(ds) - 1)) + DigitValue(CharAt(ds, Len(ds)))

\* float() of the group \d+(?:\.\d{2})? that starts at p, in cents
DecimalAt(text, p) ==
    LET q == RunEnd(text, p, "d")
        whole == ParseInt(SubSeq(text, p, q))
    IN  IF q + 3 <= Len(text) /\ CharAt(text, q + 1) = "."
           /\ IsDigit(CharAt(text, q + 2)) /\ IsDigit(CharAt(text, q + 3))
        THEN 100 * whole + ParseInt(SubSeq(text, q + 2, q + 3))
        ELSE 100 * whole

\* the least element of a non-empty set of positions
Least(S) == CHOOSE i \in S : \A j \in S : i <= j

\* amount_patterns[0]: \$?(\d+(?:\.\d{2})?)
AmountPattern1(text) ==
    LET at == {i \in 1..Len(text) : IsDigit(CharAt(text, i))}
    IN  IF at = {} THEN NoAmount ELSE DecimalAt(text, Least(at))

\* amount_patterns[1]: (\d+) dollars?
AmountPattern2(text) ==
    LET at == {i \in 1..Len(text) :
                  /\ IsDigit(CharAt(text, i))
                  /\ StartsAt(text, RunEnd(text, i, "d") + 1, " dollar")}
    IN  IF at = {} THEN NoAmount
        ELSE 100 * ParseInt(SubSeq(text, Least(at), RunEnd(text, Least(at), "d")))

\* amount_patterns[2]: amount (?:of )?(\d+(?:\.\d{2})?)
AmountPattern3(text) ==
    LET start(i) == IF StartsAt(text, i + 7, "of ") /\ i + 10 <= Len(text)
                       /\ IsDigit(CharAt(text, i + 10))
                    THEN i + 10 ELSE i + 7
        at == {i \in 1..Len(text) :
                  /\ StartsAt(text, i, "amount ")
                  /\ start(i) <= Len(text) /\ IsDigit(CharAt(text, start(i)))}
    IN  IF at = {} THEN NoAmount ELSE DecimalAt(text, start(Least(at)))

\* a variant that tries the pattern 'N dollars' before the pattern '$N.NN'
extract_amount_dollars_first(message) ==
    LET text == lower(message)
    IN  IF AmountPattern2(text) # NoAmount THEN AmountPattern2(text)
        ELSE IF AmountPattern1(text) # NoAmount THEN AmountPattern1(text)
        ELSE AmountPattern3(text)

\* the first pattern that matches gives the amount; None (NoAmount) if none does
extract_amount(message) ==
    LET text == lower(message)
    IN  IF AmountPattern1(text) # NoAmount THEN AmountPattern1(text)
        ELSE IF AmountPattern2(text) # NoAmount THEN AmountPattern2(text)
        ELSE AmountPattern3(text)

\* the end of the group [A-Za-z]+(?:\s+[A-Za-z]+)? that starts at p
WordsEnd(text, p) ==
    LET q == RunEnd(text, p, "a")
        r == RunEnd(text, q + 1, "s")
    IN  IF r > q /\ r + 1 <= Len(text) /\ IsLetter(CharAt(text, r + 1))
        THEN RunEnd(text, r + 1, "a") ELSE q

\* the group of the leftmost match of  (?:pre1|pre2|...) <optional>?(words), or None
MerchantPattern(text, prefixes, optional) ==
    LET start(i, pre) ==
            IF optional # "" /\ StartsAt(text, i + Len(pre), optional)
               /\ i + Len(pre) + Len(optional) <= Len(text)
               /\ IsLetter(CharAt(text, i + Len(pre) + Len(optional)))
            THEN i + Len(pre) + Len(optional) ELSE i + Len(pre)
        ok(i, pre) == /\ StartsAt(text, i, pre)
                      /\ start(i, pre) <= Len(text)
                      /\ IsLetter(CharAt(text, start(i, pre)))
        at == {i \in 1..Len(text) : \E pre \in prefixes : ok(i, pre)}
    IN  IF at = {} THEN None
        ELSE LET i == Least(at)
                 pre == CHOOSE x \in prefixes : ok(i, x)
             IN  SubSeq(text, start(i, pre), WordsEnd(text, start(i, pre)))

UpperChar(c) ==
    IF \E k \in 1..26 : CharAt(LowerCase, k) = c
    THEN CharAt(UpperCase, CHOOSE k \in 1..26 : CharAt(LowerCase, k) = c)
    ELSE c

\* str.title() of lower-case text
RECURSIVE TitleFrom(_, _)
TitleFrom(s, i) ==
    IF i > Len(s) THEN ""
    ELSE (IF i = 1 \/ ~IsLetter(CharAt(s, i - 1)) THEN UpperChar(CharAt(s, i))
          ELSE CharAt(s, i)) \o TitleFrom(s, i + 1)

title(s) == TitleFrom(s, 1)

merchant_map(m) ==
    CASE m = "amazon" -> "Amazon"
      [] m = "starbucks" -> "Starbucks"
      [] m = "target" -> "Target"
      [] m = "walmart" -> "Walmart"
      [] m = "shell" -> "Shell"
      [] m = "uber" -> "Uber"
      [] m = "apple" -> "Apple"
      [] m = "stripe" -> "Stripe"
      [] m = "mcdonalds" -> "McDonald's"
      [] OTHER -> title(m)

extract_merchant(message) ==
    LET text == lower(message)
        m1 == MerchantPattern(text, {"at ", "from ", "to "}, "")
        m2 == MerchantPattern(text, {"merchant "}, "is ")
        m3 == MerchantPattern(text, {"purchased "}, "from ")
    IN  IF m1 # None THEN merchant_map(m1)
        ELSE IF m2 # None THEN merchant_map(m2)
        ELSE IF m3 # None THEN merchant_map(m3)
        ELSE None

\* re.search(r'\b(?:w1|w2|...)\b', text)
WordSearch(text, words) ==
    \E w \in words : \E i \in 1..(Len(text) - Len(w) + 1) :
        /\ StartsAt(text, i, w)
        /\ (i = 1 \/ ~IsWordChar(CharAt(text, i - 1)))
        /\ (i + Len(w) - 1 = Len(text) \/ ~IsWordChar(CharAt(text, i + Len(w))))

\* the first algorithm, in the order ann, svm, knn, whose pattern is found
detect_algorithm_selection(message) ==
    LET text == lower(message)
    IN  IF WordSearch(text, {"ann", "artificial neural network", "neural", "mlp"}) THEN "ann"
        ELSE IF WordSearch(text, {"svm", "support vector machine", "vector"}) THEN "svm"
        ELSE IF WordSearch(text, {"knn", "k-nearest", "nearest neighbor"}) THEN "knn"
        ELSE None

is_fraud_inquiry(message) ==
    AnyIn(lower(message),
          {"fraud", "fraudulent", "suspicious", "check transaction", "is this fraud",
           "analyze", "score", "legitimate", "safe"})

is_user_info_request(message) ==
    AnyIn(lower(message),
          {"my account", "my profile", "my info", "my details", "account info",
           "profile", "who am i", "my stats", "my data", "about me"})

is_transaction_history_request(message) ==
    AnyIn(lower(message),
          {"my transactions", "transaction history", "recent transactions",
           "my purchases", "spending history", "show transactions",
           "list transactions", "my fraud", "fraud history",
           "transactions", "transaction",
           "largest transaction", "biggest transaction", "highest transaction",
           "smallest transaction", "lowest transaction", "transaction review",
           "review transactions", "analyze transactions", "check transactions",
           "transaction summary", "spending review", "expense review",
           "do i have fraud", "any fraud", "fraud cases", "show fraud",
           "fraud activity", "fraudulent", "suspicious activity"})

\* process_message: any(word in message.lower() for word in ['hello', 'hi', 'help', 'start'])
is_greeting(message) == AnyIn(lower(message), {"hello", "hi", "help", "start"})

\* process_message: any(word in message.lower() for word in ['algorithm', 'model', 'available'])
is_algorithm_info(message) == AnyIn(lower(message), {"algorithm", "model", "available"})

\* re.search(r'(?:last|recent)\s+(\d+)', text): int of the group, NoAmount if no match
LimitSearch(text) ==
    LET digits(i, w) == RunEnd(text, i + Len(w), "s") + 1
        ok(i, w) == /\ StartsAt(text, i, w)
                    /\ digits(i, w) > i + Len(w)
                    /\ digits(i, w) <= Len(text)
                    /\ IsDigit(CharAt(text, digits(i, w)))
        at == {i \in 1..Len(text) : \E w \in {"last", "recent"} : ok(i, w)}
    IN  IF at = {} THEN NoAmount
        ELSE LET i == Least(at)
                 w == CHOOSE x \in {"last", "recent"} : ok(i, x)
             IN  ParseInt(SubSeq(text, digits(i, w), RunEnd(text, digits(i, w), "d")))

(***************************************************************************)
(* The messages of the model and what the chatbot extracts from them          *)
(***************************************************************************)
\* the example commands of the command list in _greeting_response and
\* _default_response
HelpCommands ==
    {"transactions", "transaction history", "largest transaction",
     "smallest transaction", "transaction summary",
     "fraud activity", "fraud cases", "do i have fraud",
     "Check transaction for $500 at Amazon", "Is $1000 fraud?",
     "account info", "my account", "my stats",
     "Use SVM algorithm", "Use neural network", "Use KNN",
     "What algorithms are available?", "Show algorithm performance",
     "help", "hello"}

\* the chat messages sent in the model
Messages ==
    {"hello",
     "Is this fraud?",
     "my account",
     "transactions",
     "show last 50 transactions",
     "last 2 fraud transactions",
     "largest transaction",
     "fraud cases",
     "Check transaction for $500 at Starbucks",
     "Use SVM algorithm",
     "Use KNN",
     "Switch to neural network",
     "Is $1000 fraud?",
     "Is $600 at Starbucks safe",
     "Is $0 safe",
     "is it legitimate",
     "What algorithms are available?",
     "tell me a joke"}

\* what the keyword tests and the extractors make of a message
Parse(message) ==
    [greeting |-> is_greeting(message),
     user_info |-> is_user_info_request(message),
     transaction_history |-> is_transaction_history_request(message),
     selected_algo |-> detect_algorithm_selection(message),
     fraud_inquiry |-> is_fraud_inquiry(message),
     algorithm_info |-> is_algorithm_info(message),
     amount |-> extract_amount(message),
     merchant |-> extract_merchant(message),
     fraud_only |-> AnyIn(lower(message), {"fraud", "suspicious", "flagged"}),
     analysis_type |->
        IF AnyIn(lower(message), {"largest", "biggest", "highest"}) THEN "largest"
        ELSE IF AnyIn(lower(message), {"smallest", "lowest"}) THEN "smallest"
        ELSE IF AnyIn(lower(message), {"review", "summary", "analyze"}) THEN "summary"
        ELSE None,
     limit_match |-> LimitSearch(lower(message))]

\* Parse, computed once for each message of the model and each command of the
\* help text
ParsedMessages == [m \in Messages \cup HelpCommands |-> Parse(m)]

\* the merchant texts of the model: drawn for the rules, extracted from the
\* messages, stored in the transactions table
Merchants ==
    {None, "", "Starbucks", "Amazon", "Uber", "Whole Foods", "Unknown Vendor",
     "SUSPICIOUS Starbucks", "Uber Whole Foods"}
    \cup {ParsedMessages[m].merchant : m \in Messages}

\* the words the rules and the vector look for in a merchant
MerchantTerms == {"starbucks", "unknown", "suspicious", "uber", "whole foods"}

\* merchant texts whose lower-case searches are computed once
KnownMerchants ==
    {"Starbucks", "Starbucks Safe", "Amazon", "Uber", "Whole Foods", "Unknown Vendor",
     "SUSPICIOUS Starbucks", "Uber Whole Foods", "Neural Network", "Algorithms Are"}

LowerContains ==
    [m \in KnownMerchants |-> [t \in MerchantTerms |-> Contains(lower(m), t)]]

\* term in merchant.lower()
InLower(merchant, term) ==
    IF merchant \in KnownMerchants /\ term \in MerchantTerms
    THEN LowerContains[merchant][term]
    ELSE Contains(lower(merchant), term)

(***************************************************************************)
(* BusinessRuleOverlay: FraudDetectionChatbot._apply_fraud_business_rules  *)
(***************************************************************************)
\* a variant that adds each matching floor to the running score
_apply_fraud_business_rules_sum(amount, merchant, base_score) ==
    LET s1 == IF Truthy(merchant) /\ InLower(merchant, "starbucks") /\ amount > 50000
              THEN base_score + 800 ELSE base_score
        s2 == IF amount > 1000000 THEN s1 + 600 ELSE s1
        s3 == IF amount < 10 THEN s2 + 700 ELSE s2
        s4 == IF Truthy(merchant) /\ (InLower(merchant, "unknown") \/ InLower(merchant, "suspicious"))
              THEN s3 + 1200 ELSE s3
        s5 == IF Truthy(merchant) /\ InLower(merchant, "uber") /\ amount > 30000
              THEN s4 + 400 ELSE s4
        s6 == IF Truthy(merchant) /\ InLower(merchant, "whole foods")
                 /\ (amount < 500 \/ amount > 50000)
              THEN s5 + 300 ELSE s5
    IN  Min(s6, 10000)

\* a variant whose rules replace the running score by their floor
_apply_fraud_business_rules_assign(amount, merchant, base_score) ==
    LET s1 == IF Truthy(merchant) /\ InLower(merchant, "starbucks") /\ amount > 50000
              THEN 800 ELSE base_score
        s2 == IF amount > 1000000 THEN 600 ELSE s1
        s3 == IF amount < 10 THEN 700 ELSE s2
        s4 == IF Truthy(merchant) /\ (InLower(merchant, "unknown") \/ InLower(merchant, "suspicious"))
              THEN 1200 ELSE s3
        s5 == IF Truthy(merchant) /\ InLower(merchant, "uber") /\ amount > 30000
              THEN 400 ELSE s4
        s6 == IF Truthy(merchant) /\ InLower(merchant, "whole foods")
                 /\ (amount < 500 \/ amount > 50000)
              THEN 300 ELSE s5
    IN  Min(s6, 10000)

_apply_fraud_business_rules(amount, merchant, base_score) ==
    LET \* Rule 1: high amounts at coffee shops
        s1 == IF Truthy(merchant) /\ InLower(merchant, "starbucks") /\ amount > 50000
              THEN Max(base_score, 800) ELSE base_score
        \* Rule 2: very high amounts at any merchant
        s2 == IF amount > 1000000 THEN Max(s1, 600) ELSE s1
        \* Rule 3: micro transactions
        s3 == IF amount < 10 THEN Max(s2, 700) ELSE s2
        \* Rule 4: unknown or suspicious merchants
        s4 == IF Truthy(merchant) /\ (InLower(merchant, "unknown") \/ InLower(merchant, "suspicious"))
              THEN Max(s3, 1200) ELSE s3
        \* Rule 5: high ride sharing costs
        s5 == IF Truthy(merchant) /\ InLower(merchant, "uber") /\ amount > 30000
              THEN Max(s4, 400) ELSE s4
        \* Rule 6: unusual grocery amounts
        s6 == IF Truthy(merchant) /\ InLower(merchant, "whole foods")
                 /\ (amount < 500 \/ amount > 50000)
              THEN Max(s5, 300) ELSE s5
    IN  Min(s6, 10000)

(***************************************************************************)
(* FeatureVectorBuilder: FraudDetectionChatbot.build_transaction_vector    *)
(* Vector values are in thousandths.                                       *)
(***************************************************************************)
VName(i) == "V" \o ToString(i)

\* np.log(amount) in thousandths, rounded down to a whole number of units of 1.0
\* (only used for amounts from 1.00 to 1000.00; the thresholds are e^k in cents)
LnMilli(amount) ==
    1000 * Cardinality({t \in {272, 739, 2009, 5460, 14842, 40343} : t <= amount})

Sign(i) == IF i % 2 = 0 THEN 1 ELSE -1

\* transaction[key] = value
Put(transaction, key, value) ==
    [k \in DOMAIN transaction \cup {key} |-> IF k = key THEN value ELSE transaction[k]]

\* for i in range(1, 29): transaction[f"V{i}"] = ..., from i on
RECURSIVE base_features(_, _, _, _)
base_features(transaction, i, amount, merchant) ==
    IF i >= 29 THEN transaction
    ELSE base_features(
             Put(transaction, VName(i),
                 IF i <= 14
                 THEN IF amount > 100000 THEN (amount \div 20) * Sign(i)
                      ELSE IF amount < 100 THEN amount * 100 * Sign(i)
                      ELSE (LnMilli(amount) \div 5) * Sign(i)
                 ELSE (IF Truthy(merchant) THEN 100 ELSE 0) * Sign(i)),
             i + 1, amount, merchant)

\* for j in range(20, 28): transaction[f"V{j}"] = 1.0 + (j * 0.1), from j on
RECURSIVE unknown_merchant_features(_, _)
\* a variant whose loop runs over range(20, 30)
RECURSIVE unknown_merchant_features_long(_, _)
unknown_merchant_features_long(transaction, j) ==
    IF j >= 30 THEN transaction
    ELSE unknown_merchant_features_long(Put(transaction, VName(j), 1000 + 100 * j), j + 1)

unknown_merchant_features(transaction, j) ==
    IF j >= 28 THEN transaction
    ELSE unknown_merchant_features(Put(transaction, VName(j), 1000 + 100 * j), j + 1)

\* if merchant: the elif chain of overrides
merchant_features(transaction, amount, merchant) ==
    IF ~Truthy(merchant) THEN transaction
    ELSE IF InLower(merchant, "starbucks") /\ amount > 50000
    THEN Put(Put(transaction, "V14", 2500), "V15", 1800)
    ELSE IF InLower(merchant, "uber") /\ amount > 30000
    THEN Put(transaction, "V16", 2200)
    ELSE IF InLower(merchant, "whole foods") /\ amount < 2000
    THEN Put(transaction, "V17", 1500)
    ELSE IF InLower(merchant, "unknown") \/ InLower(merchant, "suspicious")
    THEN unknown_merchant_features(transaction, 20)
    ELSE transaction

\* the vector in thousandths: "Time": time or 10000 with no time given,
\* "Amount": amount
build_transaction_vector(amount, merchant) ==
    merchant_features(
        base_features([f \in {"Time", "Amount"} |->
                          IF f = "Time" THEN 10000000 ELSE 10 * amount],
                      1, amount, merchant),
        amount, merchant)

(***************************************************************************)
(* users.db, as the chatbot reads it                                       *)
(***************************************************************************)
UserIds == {"alice", "bob"}

\* the transactions of the seeded users, most recent first
SeededTransactions ==
    [u \in UserIds |->
        IF u = "alice"
        THEN <<[amount |-> 60000, merchant |-> "Starbucks", is_fraud |-> 0],
               [amount |-> 4500, merchant |-> "Amazon", is_fraud |-> 0],
               [amount |-> 1200000, merchant |-> None, is_fraud |-> 1]>>
        ELSE <<[amount |-> 2500, merchant |-> "Uber", is_fraud |-> 0]>>]

\* users.db as create_user_db.py seeds it: every column of every user is set
DbSeeded ==
    [up |-> TRUE,
     users |-> [u \in UserIds |-> [full_name |-> "Demo User",
                                   created_at |-> "2025-01-01T10:00:00"]],
     transactions |-> SeededTransactions]

\* the same, with the nullable column users.created_at left NULL
DbNullCreatedAt ==
    [DbSeeded EXCEPT !.users = [u \in UserIds |-> [full_name |-> "Demo User",
                                                    created_at |-> None]]]

\* the database file cannot be read
DbDown == [DbSeeded EXCEPT !.up = FALSE]

Databases == {DbSeeded, DbNullCreatedAt, DbDown}

NoUser == [found |-> FALSE]

\* get_user_info: None when the database fails, the user is unknown, or the
\* statistics cannot be computed (no transaction: SUM(...) is NULL, TypeError caught)
get_user_info(user_id, db) ==
    IF ~db.up \/ user_id \notin DOMAIN db.users THEN NoUser
    ELSE IF Len(db.transactions[user_id]) = 0 THEN NoUser
    ELSE [found |-> TRUE, full_name |-> db.users[user_id].full_name,
          created_at |-> db.users[user_id].created_at,
          transaction_count |-> Len(db.transactions[user_id]),
          fraud_count |-> Cardinality({k \in 1..Len(db.transactions[user_id]) :
                                          db.transactions[user_id][k].is_fraud = 1})]

get_user_transactions(user_id, limit, db) ==
    IF ~db.up \/ user_id \notin DOMAIN db.users THEN <<>>
    ELSE SubSeq(db.transactions[user_id], 1, Min(limit, Len(db.transactions[user_id])))

(***************************************************************************)
(* FraudDetectionChatbot.call_ml_api, local mode                           *)
(* The value is the dict returned, the registry left behind, and the       *)
(* exception (if any) that a registry function raised into call_ml_api.    *)
(***************************************************************************)
HasError(result) == "error" \in DOMAIN result

\* "/select/<algo>": the dict built from what set_active_algorithm returned
select_reply(algo, r) ==
    [result |-> IF r.ok THEN [status |-> "success", active_algorithm |-> algo]
                ELSE [error |-> "Failed to activate", algo |-> algo],
     reg |-> r.reg, raised |-> "none"]

\* a variant without the try/except: the exception of predict_fraud leaves call_ml_api
score_reply_uncaught(reg, p) ==
    IF p.raised
    THEN [result |-> [raised |-> p.exception], reg |-> reg, raised |-> p.exception]
    ELSE [result |-> [score |-> p.score, decision |-> ChatDecision(p.score),
                      algorithm |-> p.algorithm, confidence |-> p.confidence,
                      model_version |-> "v1.0"],
          reg |-> reg, raised |-> "none"]

\* "/score": try: result = ml_models.predict_fraud(data, algorithm) ...
\* except Exception as e: return {"error": f"Scoring failed: {str(e)}"}
score_reply(reg, p) ==
    IF p.raised
    THEN [result |-> [error |-> "Scoring failed", cause |-> p.error],
          reg |-> reg, raised |-> p.exception]
    ELSE [result |-> [score |-> p.score, decision |-> ChatDecision(p.score),
                      algorithm |-> p.algorithm, confidence |-> p.confidence,
                      model_version |-> "v1.0"],
          reg |-> reg, raised |-> "none"]

call_ml_api(reg, endpoint, method, data, algorithm, fault) ==
    IF endpoint = "/algorithms"
    THEN [result |-> [algorithms |-> <<"ann", "svm", "knn">>,
                      available |-> get_available_algorithms(reg),
                      active |-> reg.active],
          reg |-> reg, raised |-> "none"]
    ELSE IF StartsAt(endpoint, 1, "/select/")
    THEN \* algo = endpoint.split("/")[-1]
         select_reply(SubSeq(endpoint, 9, Len(endpoint)),
                      set_active_algorithm(reg, SubSeq(endpoint, 9, Len(endpoint)), fault))
    ELSE IF endpoint = "/score"
    THEN IF ~PyTruthy(data)
         THEN [result |-> [error |-> "No transaction data provided"], reg |-> reg,
               raised |-> "none"]
         ELSE \* predict: the algorithm argument of predict_fraud and the
              \* algorithm it resolves to (algo = algorithm or _active_algorithm)
              score_reply(reg, predict_fraud(reg, data, algorithm))
              @@ [predict |-> [algorithm |-> algorithm,
                               algo |-> IF Truthy(algorithm) THEN algorithm
                                        ELSE reg.active]]
    ELSE IF endpoint = "/metrics"
    THEN [result |-> get_metrics(reg, algorithm), reg |-> reg, raised |-> "none"]
    ELSE \* remote mode, which no handler of the chatbot uses
         [result |-> [error |-> "HTTP"], reg |-> reg, raised |-> "none"]

(***************************************************************************)
(* The handlers of FraudDetectionChatbot                                   *)
(* A handler takes the message as the extraction functions read it (p). Its *)
(* value: the text returned (or the exception raised), the user's session  *)
(* and the registry afterwards, and a trace of the calls made on the way.  *)
(***************************************************************************)
NoTrace == [kind |-> "none"]

Returns(text, session, reg, trace) ==
    [raised |-> FALSE, text |-> text, session |-> session, reg |-> reg, trace |-> trace]

Raises(exception, session, reg) ==
    [raised |-> TRUE, exception |-> exception, session |-> session, reg |-> reg,
     trace |-> NoTrace]

_greeting_response(user_id, session, reg, db) ==
    Returns([kind |-> "greeting", personal |-> get_user_info(user_id, db).found],
            session, reg, NoTrace)

\* the text of _handle_user_info_request for the user_info it has fetched
user_info_text(user_info, session, reg) ==
    IF ~user_info.found
    THEN Returns([kind |-> "account_not_found"], session, reg, NoTrace)
    ELSE IF user_info.created_at = None
    THEN \* user_info['created_at'][:10]: 'NoneType' object is not subscriptable
         Raises("TypeError", session, reg)
    ELSE Returns([kind |-> "account_info", full_name |-> user_info.full_name,
                  transaction_count |-> user_info.transaction_count,
                  fraud_count |-> user_info.fraud_count],
                 session, reg, NoTrace)

_handle_user_info_request(user_id, session, reg, db) ==
    user_info_text(get_user_info(user_id, db), session, reg)

\* real_time_score >= 0.05 for a stored transaction
IsRealFraud(txn) == _apply_fraud_business_rules(txn.amount, txn.merchant, 100) >= 500

\* the transactions of a list that the rules flag, in order
RECURSIVE FraudTransactions(_)
FraudTransactions(seq) ==
    IF Len(seq) = 0 THEN <<>>
    ELSE (IF IsRealFraud(Head(seq)) THEN <<Head(seq)>> ELSE <<>>)
         \o FraudTransactions(Tail(seq))

\* a variant that passes the number of the message on without a cap
history_limit_uncapped(p) ==
    IF p.limit_match # NoAmount THEN p.limit_match
    ELSE IF p.analysis_type # None THEN 10 ELSE 5

\* limit = min(int(limit_match.group(1)), 20), 10 for an analysis, else 5
history_limit(p) ==
    IF p.limit_match # NoAmount THEN Min(p.limit_match, 20)
    ELSE IF p.analysis_type # None THEN 10 ELSE 5

\* the greatest (sign = 1) or the least (sign = -1) amount of the transactions
extreme_amount(transactions, sign) ==
    CHOOSE a \in {transactions[k].amount : k \in 1..Len(transactions)} :
        \A k \in 1..Len(transactions) : sign * transactions[k].amount <= sign * a

\* the text of _handle_transaction_history_request for the transactions it shows
history_text(p, limit, fetched, transactions, session, reg) ==
    Returns(IF Len(transactions) = 0
            THEN [kind |-> IF p.fraud_only THEN "no_fraud_cases" ELSE "no_transactions"]
            ELSE IF p.analysis_type = "largest"
            THEN [kind |-> "largest", amount |-> extreme_amount(transactions, 1)]
            ELSE IF p.analysis_type = "smallest"
            THEN [kind |-> "smallest", amount |-> extreme_amount(transactions, -1)]
            ELSE IF p.analysis_type = "summary"
            THEN [kind |-> "summary", count |-> Len(transactions),
                  fraud_count |-> Len(FraudTransactions(transactions))]
            ELSE [kind |-> "list", count |-> Len(transactions),
                  fraud_only |-> p.fraud_only],
            session, reg,
            [kind |-> "history", limit |-> limit, fetched |-> fetched])

\* the transactions fetched, filtered when the message asks for fraud only
history_of(p, limit, fetched, session, reg) ==
    history_text(p, limit, Len(fetched),
                 IF p.fraud_only THEN FraudTransactions(fetched) ELSE fetched,
                 session, reg)

_handle_transaction_history_request(user_id, p, session, reg, db) ==
    history_of(p, history_limit(p),
               get_user_transactions(user_id, history_limit(p), db), session, reg)

\* the text of _handle_algorithm_selection once the metrics have been fetched
switched_text(user_session, algorithm, m) ==
    Returns([kind |-> "switched", algorithm |-> algorithm, metrics |-> m.result],
            [user_session EXCEPT !.algorithm = algorithm], m.reg,
            [kind |-> "select", ok |-> TRUE])

\* a variant that does not look for "error" in what "/select/<algo>" returned
selection_text_ignores_error(user_session, algorithm, r, fault) ==
    switched_text(user_session, algorithm,
                  call_ml_api(r.reg, "/metrics", PyNone, PyStr(algorithm), None, fault))

\* the rest of _handle_algorithm_selection, given what "/select/<algo>" returned
selection_text(user_session, algorithm, r, fault) ==
    IF HasError(r.result)
    THEN Returns([kind |-> "select_error", algorithm |-> algorithm],
                 user_session, r.reg, [kind |-> "select", ok |-> FALSE])
    ELSE \* self.call_ml_api("/metrics", None, algorithm): method=None, data=algorithm
         switched_text(user_session, algorithm,
                       call_ml_api(r.reg, "/metrics", PyNone, PyStr(algorithm), None, fault))

_handle_algorithm_selection(user_session, algorithm, reg, fault) ==
    selection_text(user_session, algorithm,
                   call_ml_api(reg, "/select/" \o algorithm, PyStr("post"), PyNone, None,
                               fault),
                   fault)

\* score, decision and confidence as _format_fraud_response prints them
_format_fraud_response(result, amount, merchant, algorithm) ==
    [kind |-> "analysis", amount |-> amount, merchant |-> merchant,
     algorithm |-> algorithm, score |-> result.score,
     status |-> IF result.decision = "allow" THEN "LEGITIMATE"
                ELSE IF result.decision = "challenge" THEN "REQUIRES REVIEW"
                ELSE "BLOCKED",
     confidence |-> result.confidence]

\* the result dict of an analysis: the score, its decision, the confidence
scored(score, confidence) ==
    [score |-> score, confidence |-> confidence, decision |-> ChatDecision(score)]

\* a variant that starts the fallback from a base score of 0
_handle_fraud_inquiry_fallback_zero(amount, merchant, algorithm) ==
    _format_fraud_response(
        scored(_apply_fraud_business_rules(amount, merchant, 0), 8500),
        amount, merchant, algorithm)

_handle_fraud_inquiry_fallback(amount, merchant, algorithm) ==
    \* base_score = 0.01; "confidence": 0.85
    _format_fraud_response(
        scored(_apply_fraud_business_rules(amount, merchant, 100), 8500),
        amount, merchant, algorithm)

\* what the inquiry records of its call of call_ml_api
inquiry_trace(p, algorithm, r) ==
    [kind |-> "inquiry", amount |-> p.amount, merchant |-> p.merchant,
     algorithm |-> algorithm, scored |-> TRUE, result |-> r.result, raised |-> r.raised,
     predict |-> r.predict]

\* the rest of _handle_fraud_inquiry, given what call_ml_api returned
inquiry_text(user_session, p, r) ==
    IF "raised" \in DOMAIN r.result \/ HasError(r.result)
    THEN Returns(_handle_fraud_inquiry_fallback(p.amount, p.merchant,
                                                user_session.algorithm),
                 user_session, r.reg, inquiry_trace(p, user_session.algorithm, r))
    ELSE Returns(_format_fraud_response(
                     scored(_apply_fraud_business_rules(p.amount, p.merchant,
                                                        r.result.score),
                            r.result.confidence),
                     p.amount, p.merchant, user_session.algorithm),
                 user_session, r.reg, inquiry_trace(p, user_session.algorithm, r))

_handle_fraud_inquiry(user_session, p, reg, fault) ==
    IF p.amount = NoAmount \/ p.amount = 0
    THEN \* if not amount
         Returns([kind |-> "need_amount"], user_session, reg,
                 [kind |-> "inquiry", amount |-> p.amount, merchant |-> p.merchant,
                  algorithm |-> user_session.algorithm, scored |-> FALSE])
    ELSE \* self.call_ml_api("/score", transaction_data, algorithm):
         \* method=transaction_data, data=algorithm, algorithm=None
         inquiry_text(user_session, p,
                      call_ml_api(reg, "/score",
                                  PyDict(build_transaction_vector(p.amount, p.merchant), {}),
                                  PyStr(user_session.algorithm), None, fault))

\* the text of _handle_algorithm_info for what "/algorithms" returned
algorithm_info_text(session, r) ==
    Returns([kind |-> "algorithm_info", active |-> r.result.active,
             status |-> [a \in Algorithms |->
                            IF a \in r.result.available THEN "Ready"
                            ELSE "Not Available"]],
            session, r.reg, NoTrace)

_handle_algorithm_info(session, reg, fault) ==
    algorithm_info_text(session,
                        call_ml_api(reg, "/algorithms", PyStr("get"), PyNone, None, fault))

_default_response(session, reg) == Returns([kind |-> "default"], session, reg, NoTrace)

(***************************************************************************)
(* IntentRouter: FraudDetectionChatbot.process_message                     *)
(***************************************************************************)
\* a variant that tests the fraud-inquiry keywords before the history keywords
process_message_branches_fraud_first(p) ==
    IF p.greeting THEN <<"greeting">>
    ELSE IF p.user_info THEN <<"user_info">>
    ELSE IF p.fraud_inquiry THEN <<"fraud_inquiry">>
    ELSE IF p.transaction_history THEN <<"transaction_history">>
    ELSE IF p.selected_algo # None THEN <<"algorithm_selection">>
    ELSE IF p.algorithm_info THEN <<"algorithm_info">>
    ELSE <<"default">>

\* a variant that sends fraud inquiries to the algorithm information while SVM is active
process_message_branches_by_active(p) ==
    IF p.greeting THEN <<"greeting">>
    ELSE IF p.user_info THEN <<"user_info">>
    ELSE IF p.transaction_history THEN <<"transaction_history">>
    ELSE IF p.selected_algo # None THEN <<"algorithm_selection">>
    ELSE IF p.fraud_inquiry /\ _active_algorithm # "svm" THEN <<"fraud_inquiry">>
    ELSE IF p.algorithm_info \/ p.fraud_inquiry THEN <<"algorithm_info">>
    ELSE <<"default">>

\* the branches of process_message that run for a message, in the order they run
process_message_branches(p) ==
    IF p.greeting THEN <<"greeting">>
    ELSE IF p.user_info THEN <<"user_info">>
    ELSE IF p.transaction_history THEN <<"transaction_history">>
    ELSE IF p.selected_algo # None THEN <<"algorithm_selection">>
    ELSE IF p.fraud_inquiry THEN <<"fraud_inquiry">>
    ELSE IF p.algorithm_info THEN <<"algorithm_info">>
    ELSE <<"default">>

NoSession == [present |-> FALSE]
NewSession == [present |-> TRUE, algorithm |-> "ann", conversation_stage |-> "greeting"]

\* the handler of a branch, run on the user's session
dispatch(branch, user_id, p, user_session, reg, db, fault) ==
    CASE branch = "greeting" -> _greeting_response(user_id, user_session, reg, db)
      [] branch = "user_info" -> _handle_user_info_request(user_id, user_session, reg, db)
      [] branch = "transaction_history" ->
            _handle_transaction_history_request(user_id, p, user_session, reg, db)
      [] branch = "algorithm_selection" ->
            _handle_algorithm_selection(user_session, p.selected_algo, reg, fault)
      [] branch = "fraud_inquiry" -> _handle_fraud_inquiry(user_session, p, reg, fault)
      [] branch = "algorithm_info" -> _handle_algorithm_info(user_session, reg, fault)
      [] OTHER -> _default_response(user_session, reg)

\* process_message: the handler's value, with the branches that ran
process_message(user_id, p, sessions, reg, db, fault) ==
    [handled |-> dispatch(Head(process_message_branches(p)), user_id, p,
                          IF sessions[user_id] = NoSession THEN NewSession
                          ELSE sessions[user_id],
                          reg, db, fault),
     branches |-> process_message_branches(p)]

(***************************************************************************)
(* Operations                                                              *)
(***************************************************************************)
NoProbe == [armed |-> FALSE]
NoCall == [phase |-> "idle"]
NoThreads == [writer |-> [pc |-> "idle"], reader |-> [pc |-> "idle"]]

\* the process has just been started: nothing is loaded; the models directory
\* is empty, or holds the svm artifact an earlier run has saved
Init ==
    /\ started = FALSE
    /\ _models = [a \in Algorithms |-> NoBundle]
    /\ _active_algorithm = "ann"
    /\ artifacts \in {[a \in Algorithms |-> NoFile],
                      [a \in Algorithms |->
                          IF a = "svm" THEN PickleFile(Bundle(a, 0)) ELSE NoFile]}
    /\ fits = 0
    /\ session_state = [u \in UserIds |-> NoSession]
    /\ last = [op |-> "none"]
    /\ probe = NoProbe
    /\ rules_call = NoCall
    /\ threads = NoThreads

SetRegistry(reg) ==
    /\ _models' = reg.models
    /\ _active_algorithm' = reg.active
    /\ artifacts' = reg.artifacts
    /\ fits' = reg.fits

\* main.py train_models_on_startup: ml_models.train_algorithm("ann", force_retrain=True)
Startup ==
    /\ ~started
    /\ \E fault \in TrainFaults :
          /\ WithinFits(Registry, "ann", TRUE, fault)
          /\ LET t == train_algorithm(Registry, "ann", TRUE, fault)
             IN  /\ SetRegistry(t.reg)
                 /\ last' = [op |-> "startup", ok |-> t.ok, before |-> Registry]
    /\ started' = TRUE
    /\ UNCHANGED <<session_state, probe, rules_call, threads>>

\* main.py POST /train/{algorithm}
TrainModel ==
    /\ started
    /\ \E algorithm \in Algorithms \cup {"rf"}, force_retrain \in BOOLEAN,
          fault \in TrainFaults :
          IF algorithm \notin {"ann", "svm", "knn"}
          THEN /\ last' = [op |-> "train", algorithm |-> algorithm, status |-> 400,
                           body |-> [error |-> "Unknown algorithm"]]
               /\ UNCHANGED registry_vars
          ELSE /\ WithinFits(Registry, algorithm, force_retrain, fault)
               /\ LET t == train_algorithm(Registry, algorithm, force_retrain, fault)
                  IN  /\ SetRegistry(t.reg)
                      /\ last' = IF t.ok
                                 THEN [op |-> "train", algorithm |-> algorithm,
                                       status |-> 200,
                                       body |-> [status |-> "success",
                                                 metrics |-> get_metrics(t.reg, algorithm)]]
                                 ELSE [op |-> "train", algorithm |-> algorithm,
                                       status |-> 500,
                                       body |-> [error |-> "Training failed"]]
               /\ UNCHANGED started
    /\ UNCHANGED <<session_state, probe, rules_call, threads>>

\* main.py POST /select/{algorithm}
SelectAlgorithm ==
    /\ started
    /\ \E algorithm \in Algorithms \cup {"rf"}, fault \in TrainFaults :
          IF algorithm \notin {"ann", "svm", "knn"}
          THEN /\ last' = [op |-> "select", algorithm |-> algorithm, status |-> 400,
                           body |-> [error |-> "Unknown algorithm"]]
               /\ UNCHANGED registry_vars
          ELSE /\ WithinFits(Registry, algorithm, FALSE, fault)
                  \/ _models[algorithm] # NoBundle
               /\ LET r == set_active_algorithm(Registry, algorithm, fault)
                  IN  /\ SetRegistry(r.reg)
                      /\ last' = IF r.ok
                                 THEN [op |-> "select", algorithm |-> algorithm,
                                       status |-> 200,
                                       body |-> [status |-> "success",
                                                 active_algorithm |-> algorithm]]
                                 ELSE [op |-> "select", algorithm |-> algorithm,
                                       status |-> 500,
                                       body |-> [error |-> "Failed to activate"]]
               /\ UNCHANGED started
    /\ UNCHANGED <<session_state, probe, rules_call, threads>>

\* the request bodies sent to POST /score
ScorePayloads ==
    {PyDict(build_transaction_vector(7500, "Amazon"), {}),
     PyDict(build_transaction_vector(60000, "Starbucks"), {}),
     PyDict([f \in {"Amount"} |-> 75000], {}),
     PyDict([f \in {"Amount", "Time"} |-> 0], {"Amount"}),
     PyDict([f \in {} |-> 0], {})}

\* main.py POST /score
Score ==
    /\ started
    /\ \E payload \in ScorePayloads, algorithm \in Algorithms \cup {"rf", None} :
          LET algo == IF Truthy(algorithm) THEN algorithm ELSE _active_algorithm
              p == predict_fraud(Registry, payload, algo)
              call == [op |-> "score", algorithm |-> algorithm, algo |-> algo,
                       ready |-> is_ready(Registry, algo)]
          IN  last' =
                IF ~is_ready(Registry, algo)
                THEN call @@ [status |-> 503, body |-> [error |-> "not loaded", algo |-> algo]]
                ELSE IF p.raised
                THEN call @@ [status |-> 400, body |-> [error |-> p.error]]
                ELSE call @@ [status |-> 200,
                              body |-> [score |-> p.score,
                                        decision |-> HttpDecision(p.score),
                                        algorithm |-> p.algorithm,
                                        confidence |-> p.confidence,
                                        model_version |-> "v1.0"]]
    /\ UNCHANGED <<registry_vars, session_state, probe, rules_call, threads>>

\* the rows of the transactions table that POST /detect_fraud reads for a user,
\* columns after id and user_id; a row is floatable when float() takes every column
DetectRows ==
    {<<>>,
     <<[floatable |-> FALSE, values |-> <<0, 60000>>]>>,
     <<[floatable |-> TRUE, values |-> <<10000, 7500, 1>>],
       [floatable |-> TRUE, values |-> <<20000, 60000, 0>>]>>}

\* main.py detect_fraud: payload = {f"feature_{i}": val for i, val in enumerate(features)}
detect_payload(features) ==
    PyDict([f \in {"feature_" \o ToString(i - 1) : i \in 1..Len(features)} |->
               features[CHOOSE i \in 1..Len(features) :
                            "feature_" \o ToString(i - 1) = f]], {})

\* main.py detect_fraud: one prediction for each row
RECURSIVE Predictions(_, _, _)
Predictions(reg, rows, algo) ==
    IF Len(rows) = 0 THEN <<>>
    ELSE LET result == predict_fraud(reg, detect_payload(Head(rows).values), algo)
         IN  <<[score |-> result.score, decision |-> HttpDecision(result.score),
                confidence |-> result.confidence, algorithm |-> result.algorithm]>>
             \o Predictions(reg, Tail(rows), algo)

\* main.py POST /detect_fraud/{user_id}
DetectFraud ==
    /\ started
    /\ \E rows \in DetectRows :
          LET algo == _active_algorithm
              call == [op |-> "detect_fraud", algo |-> algo,
                       ready |-> is_ready(Registry, algo), rows |-> Len(rows),
                       stored |-> [k \in 1..Len(rows) |-> rows[k].values]]
          IN  last' =
                IF Len(rows) = 0
                THEN call @@ [status |-> 404, body |-> [detail |-> "No transactions found"]]
                ELSE IF \E k \in 1..Len(rows) : ~rows[k].floatable
                THEN call @@ [status |-> 400, body |-> [detail |-> "Error preparing features"]]
                ELSE IF ~is_ready(Registry, algo)
                THEN call @@ [status |-> 503, body |-> [detail |-> "not loaded", algo |-> algo]]
                ELSE call @@ [status |-> 200,
                              scored |-> [k \in 1..Len(rows) |->
                                             feature_row(_models[algo].feature_order,
                                                         detect_payload(rows[k].values))],
                              body |-> [results |-> Predictions(Registry, rows, algo)]]
    /\ UNCHANGED <<registry_vars, session_state, probe, rules_call, threads>>

\* the users who chat when every message of the model is sent
ChatUsers == {"alice"}

\* a variant that keeps one session for all users
chat_reply_shared(user_id, message, r) ==
    /\ session_state' = [u \in UserIds |-> r.handled.session]
    /\ SetRegistry(r.handled.reg)
    /\ last' = [op |-> "chat", user_id |-> user_id, message |-> message,
                branches |-> r.branches, trace |-> r.handled.trace]
               @@ (IF r.handled.raised
                   THEN [status |-> 500, detail |-> "Chatbot error"]
                   ELSE [status |-> 200, response |-> r.handled.text])
    /\ probe' = probe

\* what chat_message leaves behind for the value r of process_message
chat_reply(user_id, message, r) ==
    /\ session_state' = [session_state EXCEPT ![user_id] = r.handled.session]
    /\ SetRegistry(r.handled.reg)
    /\ last' = [op |-> "chat", user_id |-> user_id, message |-> message,
                branches |-> r.branches, trace |-> r.handled.trace]
               @@ (IF r.handled.raised
                   THEN [status |-> 500, detail |-> "Chatbot error"]
                   ELSE [status |-> 200, response |-> r.handled.text])
    /\ probe' = IF probe.armed /\ ~probe.seen
                   /\ probe.user_id = user_id /\ probe.message = message
                THEN [probe EXCEPT !.seen = TRUE,
                                   !.branches = r.branches,
                                   !.active = _active_algorithm,
                                   !.session = session_state[user_id]]
                ELSE probe

\* one message p of a user, with the inputs its branch reads; the inputs a
\* branch does not read are fixed
chat(user_id, message, p, db, fault) ==
    /\ Head(process_message_branches(p)) \in {"greeting", "user_info", "transaction_history"}
          \/ db = DbSeeded
    /\ Head(process_message_branches(p)) = "algorithm_selection" \/ fault = "none"
    /\ Head(process_message_branches(p)) = "algorithm_selection"
          => (WithinFits(Registry, p.selected_algo, FALSE, fault)
              \/ _models[p.selected_algo] # NoBundle)
    /\ chat_reply(user_id, message,
                  process_message(user_id, p, session_state, Registry, db, fault))

\* routers/chatbot.py POST /chatbot/message: chatbot.process_message, and
\* HTTPException(500) when it raises
ChatMessage(users, messages) ==
    /\ started
    /\ \E user_id \in users, message \in messages, db \in Databases,
          fault \in TrainFaults :
          chat(user_id, message, ParsedMessages[message], db, fault)
    /\ UNCHANGED <<started, rules_call, threads>>

\* routers/chatbot.py DELETE /chatbot/session/{user_id}
ClearSession(users) ==
    /\ started
    /\ \E user_id \in users :
          /\ session_state' = [session_state EXCEPT ![user_id] = NoSession]
          /\ last' = [op |-> "clear_session", user_id |-> user_id]
    /\ UNCHANGED <<registry_vars, probe, rules_call, threads>>

\* the chatbot: startup, chat messages, session clears
Next ==
    \/ Startup
    \/ ChatMessage(ChatUsers, Messages)
    \/ ClearSession(ChatUsers)

Spec == Init /\ [][Next]_vars

\* the chat message that scores next to the HTTP routes
RegistryMessages == {"Is $600 at Starbucks safe"}

\* the HTTP routes of main.py over the registry, and the chat's local /score
NextRegistry ==
    \/ Startup
    \/ TrainModel
    \/ SelectAlgorithm
    \/ Score
    \/ DetectFraud
    \/ ChatMessage(ChatUsers, RegistryMessages)

\* the process has just been started; the svm artifact of an earlier run may be
\* there, whole or truncated
InitRegistry ==
    /\ started = FALSE
    /\ _models = [a \in Algorithms |-> NoBundle]
    /\ _active_algorithm = "ann"
    /\ artifacts \in {[a \in Algorithms |-> NoFile],
                      [a \in Algorithms |->
                          IF a = "svm" THEN PickleFile(Bundle(a, 0)) ELSE NoFile],
                      [a \in Algorithms |->
                          IF a = "svm" THEN CorruptFile ELSE NoFile]}
    /\ fits = 0
    /\ session_state = [u \in UserIds |-> NoSession]
    /\ last = [op |-> "none"]
    /\ probe = NoProbe
    /\ rules_call = NoCall
    /\ threads = NoThreads

SpecRegistry == InitRegistry /\ [][NextRegistry]_vars

(***************************************************************************)
(* The life of the registry: the functions of ml_models called one after   *)
(* another, with every fault a training run can meet, across restarts of   *)
(* the process                                                             *)
(***************************************************************************)
\* ml_models.train_algorithm(algorithm, force_retrain)
TrainAlgorithm ==
    /\ started
    /\ \E algorithm \in Algorithms \cup {"rf"}, force_retrain \in BOOLEAN,
          fault \in TrainFaults :
          /\ WithinFits(Registry, algorithm, force_retrain, fault)
          /\ LET t == train_algorithm(Registry, algorithm, force_retrain, fault)
             IN  /\ SetRegistry(t.reg)
                 /\ last' = [op |-> "train_algorithm", algorithm |-> algorithm,
                             force_retrain |-> force_retrain, fault |-> fault,
                             ok |-> t.ok, data_loaded |-> t.data_loaded,
                             before |-> Registry]
    /\ UNCHANGED <<started, session_state, probe, rules_call, threads>>

\* ml_models.set_active_algorithm(algorithm)
SetActiveAlgorithm ==
    /\ started
    /\ \E algorithm \in Algorithms \cup {"rf"}, fault \in TrainFaults :
          /\ algorithm \in Algorithms /\ _models[algorithm] = NoBundle
                => WithinFits(Registry, algorithm, FALSE, fault)
          /\ LET r == set_active_algorithm(Registry, algorithm, fault)
             IN  /\ SetRegistry(r.reg)
                 /\ last' = [op |-> "set_active_algorithm", algorithm |-> algorithm,
                             fault |-> fault, ok |-> r.ok,
                             train_called |-> r.train_called,
                             data_loaded |-> r.data_loaded, before |-> Registry]
    /\ UNCHANGED <<started, session_state, probe, rules_call, threads>>

\* main.py GET /algorithms
ListAlgorithms ==
    /\ started
    /\ last' = [op |-> "algorithms", status |-> 200,
                body |-> [algorithms |-> <<"ann", "svm", "knn">>,
                          available |-> get_available_algorithms(Registry),
                          active |-> _active_algorithm]]
    /\ UNCHANGED <<started, registry_vars, session_state, probe, rules_call, threads>>

\* the process ends and is started again: the module globals of ml_models and
\* the sessions of the chatbot are new, the artifact files stay
Restart ==
    /\ started
    /\ started' = FALSE
    /\ _models' = [a \in Algorithms |-> NoBundle]
    /\ _active_algorithm' = "ann"
    /\ session_state' = [u \in UserIds |-> NoSession]
    /\ last' = [op |-> "restart", before |-> Registry]
    /\ UNCHANGED <<artifacts, fits, probe, rules_call, threads>>

\* the chat message that asks for the algorithm list
LifecycleMessages == {"What algorithms are available?"}

NextLifecycle ==
    \/ Startup
    \/ TrainAlgorithm
    \/ SetActiveAlgorithm
    \/ ListAlgorithms
    \/ ChatMessage(ChatUsers, LifecycleMessages)
    \/ Restart

SpecLifecycle == InitRegistry /\ [][NextLifecycle]_vars

(***************************************************************************)
(* Routing taken alone: two users chat; the first routing of one (user,    *)
(* message) pair is kept and every later routing of the pair is held       *)
(* against it                                                              *)
(***************************************************************************)
RoutingUsers == {"alice", "bob"}

RoutingMessages == {"Is $1000 fraud?", "Use SVM algorithm", "Use KNN"}

InitRouting ==
    /\ started = FALSE
    /\ _models = [a \in Algorithms |-> NoBundle]
    /\ _active_algorithm = "ann"
    /\ artifacts = [a \in Algorithms |->
                       IF a = "svm" THEN PickleFile(Bundle(a, 0)) ELSE NoFile]
    /\ fits = 0
    /\ session_state = [u \in UserIds |-> NoSession]
    /\ last = [op |-> "none"]
    /\ probe \in [armed : {TRUE}, seen : {FALSE}, user_id : {"alice"},
                  message : {"Is $1000 fraud?"}, branches : {<<>>},
                  active : {None}, session : {NoSession}]
    /\ rules_call = NoCall
    /\ threads = NoThreads

NextRouting ==
    \/ Startup
    \/ ChatMessage(RoutingUsers, RoutingMessages)
    \/ ClearSession(RoutingUsers)

SpecRouting == InitRouting /\ [][NextRouting]_vars

(***************************************************************************)
(* The sessions of two users: one message for every branch of the router,  *)
(* and session clears                                                      *)
(***************************************************************************)
SessionMessages ==
    {"hello", "my account", "transactions", "Use SVM algorithm", "Use KNN",
     "Is $1000 fraud?", "What algorithms are available?", "tell me a joke"}

NextSessions ==
    \/ Startup
    \/ ChatMessage(RoutingUsers, SessionMessages)
    \/ ClearSession(RoutingUsers)

SpecSessions == Init /\ [][NextSessions]_vars

(***************************************************************************)
(* Threads on the registry.  The async routes (train, select, score, chat) *)
(* run one at a time on the event loop; POST /detect_fraud is a plain def  *)
(* and runs on a pool thread, so its reads of _models interleave with the  *)
(* writes of a training run.  A writer's call is taken write by write, a   *)
(* reader's call read by read.                                             *)
(***************************************************************************)
\* a variant that updates the stored tuple in place, entry by entry
bundle_writes_in_place(old, new) ==
    IF old = NoBundle THEN <<new>>
    ELSE <<[old EXCEPT !.model = new.model],
           [old EXCEPT !.model = new.model, !.scaler = new.scaler],
           new>>

\* the values that _models[algorithm] takes in "_models[algorithm] = (model,
\* scaler, feature_order, metrics)": the tuple is built first and stored by one
\* assignment
bundle_writes(old, new) == <<new>>

\* a writer enters train_algorithm or set_active_algorithm: the artifact is
\* looked up and, if need be, the classifier is fitted; nothing is stored yet
WriterCall ==
    /\ started
    /\ threads.writer.pc = "idle"
    /\ \E op \in {"train_algorithm", "set_active_algorithm"}, algorithm \in Algorithms,
          force_retrain \in BOOLEAN, fault \in TrainFaults :
          /\ op = "set_active_algorithm" => ~force_retrain
          /\ (op = "train_algorithm" \/ _models[algorithm] = NoBundle)
                => WithinFits(Registry, algorithm, force_retrain, fault)
          /\ LET r == IF op = "train_algorithm"
                      THEN train_algorithm(Registry, algorithm, force_retrain, fault)
                      ELSE set_active_algorithm(Registry, algorithm, fault)
             IN  /\ threads' =
                       [threads EXCEPT !.writer =
                           [pc |-> "storing", op |-> op, algorithm |-> algorithm,
                            ok |-> r.ok, after |-> r.reg,
                            pending |-> IF r.reg.models = _models /\ r.reg.fits = fits
                                           /\ (~r.ok \/ op = "set_active_algorithm")
                                        THEN <<>>
                                        ELSE bundle_writes(_models[algorithm],
                                                           r.reg.models[algorithm])]]
                 /\ fits' = r.reg.fits
    /\ UNCHANGED <<started, _models, _active_algorithm, artifacts, session_state, last,
                   probe, rules_call>>

\* the next write to _models[algorithm]
WriterStore ==
    /\ threads.writer.pc = "storing"
    /\ threads.writer.pending # <<>>
    /\ _models' = [_models EXCEPT ![threads.writer.algorithm] =
                                     Head(threads.writer.pending)]
    /\ threads' = [threads EXCEPT !.writer.pending = Tail(@)]
    /\ UNCHANGED <<started, _active_algorithm, artifacts, fits, session_state, last,
                   probe, rules_call>>

\* save_model, then "_active_algorithm = algorithm" in set_active_algorithm, and
\* the return
WriterReturn ==
    /\ threads.writer.pc = "storing"
    /\ threads.writer.pending = <<>>
    /\ artifacts' = threads.writer.after.artifacts
    /\ _active_algorithm' = threads.writer.after.active
    /\ threads' = [threads EXCEPT !.writer = [pc |-> "idle"]]
    /\ UNCHANGED <<started, _models, fits, session_state, last, probe, rules_call>>

\* a reader enters predict_fraud or get_metrics: algo = algorithm or _active_algorithm
ReaderCall ==
    /\ started
    /\ threads.reader.pc = "idle"
    /\ \E op \in {"predict_fraud", "get_metrics"}, algorithm \in Algorithms \cup {None} :
          threads' = [threads EXCEPT !.reader =
                         [pc |-> "checking", op |-> op,
                          algo |-> IF Truthy(algorithm) THEN algorithm
                                   ELSE _active_algorithm]]
    /\ UNCHANGED <<registry_vars, session_state, last, probe, rules_call>>

\* if not is_ready(algo): the RuntimeError, or the error dict of get_metrics
ReaderCheck ==
    /\ threads.reader.pc = "checking"
    /\ threads' = IF is_ready(Registry, threads.reader.algo)
                  THEN [threads EXCEPT !.reader.pc = "ready"]
                  ELSE [threads EXCEPT !.reader = [pc |-> "idle"]]
    /\ UNCHANGED <<registry_vars, session_state, last, probe, rules_call>>

\* model, scaler, feature_order, metrics = _models[algo]
ReaderFetch ==
    /\ threads.reader.pc = "ready"
    /\ threads' = [threads EXCEPT !.reader =
                      [pc |-> "fetched", op |-> threads.reader.op,
                       algo |-> threads.reader.algo,
                       fetched |-> _models[threads.reader.algo]]]
    /\ UNCHANGED <<registry_vars, session_state, last, probe, rules_call>>

\* the prediction on the fetched model and scaler, or the fetched metrics, is
\* returned
ReaderReturn ==
    /\ threads.reader.pc = "fetched"
    /\ threads' = [threads EXCEPT !.reader = [pc |-> "idle"]]
    /\ UNCHANGED <<registry_vars, session_state, last, probe, rules_call>>

NextThreads ==
    \/ Startup
    \/ WriterCall
    \/ WriterStore
    \/ WriterReturn
    \/ ReaderCall
    \/ ReaderCheck
    \/ ReaderFetch
    \/ ReaderReturn

SpecThreads == InitRegistry /\ [][NextThreads]_vars

(***************************************************************************)
(* The rule overlay taken alone: one call on drawn inputs, then a second   *)
(* call that feeds the first result back as the base score                 *)
(***************************************************************************)
RuleAmounts ==
    {-500, 0, 5, 9, 10, 499, 500, 7500, 30000, 30001, 50000, 50001, 60000,
     1000000, 1000001, 1500000}

RuleMerchants == Merchants

RuleScores ==
    {0, 50, 100, 299, 300, 400, 599, 600, 700, 800, 1199, 1200, 1201, 5000, 10000}

InitRulesCall ==
    rules_call \in [phase : {"drawn"}, amount : RuleAmounts, merchant : RuleMerchants,
                    base_score : RuleScores]

\* score = self._apply_fraud_business_rules(amount, merchant, base_score)
ApplyRules ==
    /\ rules_call.phase = "drawn"
    /\ rules_call' = [phase |-> "applied", amount |-> rules_call.amount,
                      merchant |-> rules_call.merchant,
                      base_score |-> rules_call.base_score,
                      result |-> _apply_fraud_business_rules(rules_call.amount,
                                     rules_call.merchant, rules_call.base_score)]
    /\ UNCHANGED <<registry_vars, session_state, last, probe, threads>>

\* the same call again, on the score the first call returned
ApplyRulesAgain ==
    /\ rules_call.phase = "applied"
    /\ rules_call' = [phase |-> "reapplied", amount |-> rules_call.amount,
                      merchant |-> rules_call.merchant,
                      base_score |-> rules_call.base_score,
                      result |-> rules_call.result,
                      again |-> _apply_fraud_business_rules(rules_call.amount,
                                    rules_call.merchant, rules_call.result)]
    /\ UNCHANGED <<registry_vars, session_state, last, probe, threads>>

InitRules ==
    /\ started = FALSE
    /\ _models = [a \in Algorithms |-> NoBundle]
    /\ _active_algorithm = "ann"
    /\ artifacts = [a \in Algorithms |-> NoFile]
    /\ fits = 0
    /\ session_state = [u \in UserIds |-> NoSession]
    /\ last = [op |-> "none"]
    /\ probe = NoProbe
    /\ InitRulesCall
    /\ threads = NoThreads

NextRules == ApplyRules \/ ApplyRulesAgain

SpecRules == InitRules /\ [][NextRules]_vars

(***************************************************************************)
(* The feature vector builder taken alone: one call on drawn inputs        *)
(***************************************************************************)
\* amounts in cents, none below zero
VectorAmounts ==
    {0, 5, 50, 99, 100, 1999, 2000, 7500, 30000, 30001, 50000, 50001, 100000, 100001,
     1500000}

VectorMerchants ==
    {None, "", "Starbucks", "Amazon", "Uber", "Whole Foods", "Unknown Vendor",
     "SUSPICIOUS Starbucks", "Uber Whole Foods"}

\* self.build_transaction_vector(amount, merchant)
BuildVector ==
    /\ \E amount \in VectorAmounts, merchant \in VectorMerchants :
          last' = [op |-> "build_transaction_vector", amount |-> amount,
                   merchant |-> merchant,
                   vector |-> build_transaction_vector(amount, merchant)]
    /\ UNCHANGED <<registry_vars, session_state, probe, rules_call, threads>>

InitVector ==
    /\ started = FALSE
    /\ _models = [a \in Algorithms |-> NoBundle]
    /\ _active_algorithm = "ann"
    /\ artifacts = [a \in Algorithms |-> NoFile]
    /\ fits = 0
    /\ session_state = [u \in UserIds |-> NoSession]
    /\ last = [op |-> "none"]
    /\ probe = NoProbe
    /\ rules_call = NoCall
    /\ threads = NoThreads

NextVector == BuildVector

SpecVector == InitVector /\ [][NextVector]_vars

(***************************************************************************)
(* Properties of the rule overlay                                          *)
(***************************************************************************)
\* the greatest element of a finite set of integers
SetMax(S) == CHOOSE x \in S : \A y \in S : y <= x

\* the floors of the rules whose condition holds for the amount and the merchant
MatchingFloors(amount, merchant) ==
    {r.floor : r \in {q \in
        {[floor |-> 800,  on |-> Truthy(merchant) /\ InLower(merchant, "starbucks")
                                   /\ amount > 50000],
         [floor |-> 600,  on |-> amount > 1000000],
         [floor |-> 700,  on |-> amount < 10],
         [floor |-> 1200, on |-> Truthy(merchant) /\ (InLower(merchant, "unknown")
                                   \/ InLower(merchant, "suspicious"))],
         [floor |-> 400,  on |-> Truthy(merchant) /\ InLower(merchant, "uber")
                                   /\ amount > 30000],
         [floor |-> 300,  on |-> Truthy(merchant) /\ InLower(merchant, "whole foods")
                                   /\ (amount < 500 \/ amount > 50000)]} : q.on}}

RulesApplied == rules_call.phase \in {"applied", "reapplied"}

\* C1: the overlay returns min(1.0, max(baseScore, floors of the matching rules)):
\* the floors are never summed and the order of the rules does not matter;
\* (600, "Starbucks", 0.01) gives 0.08 and (15000, "Amazon", 0.01) gives 0.06
C1_MaxOfMatchingFloors ==
    RulesApplied =>
        /\ rules_call.result =
              Min(10000, SetMax({rules_call.base_score}
                                \cup MatchingFloors(rules_call.amount, rules_call.merchant)))
        /\ (rules_call.amount = 60000 /\ rules_call.merchant = "Starbucks"
              /\ rules_call.base_score = 100) => rules_call.result = 800
        /\ (rules_call.amount = 1500000 /\ rules_call.merchant = "Amazon"
              /\ rules_call.base_score = 100) => rules_call.result = 600

\* three rules match at once and the greatest floor is returned
C1_Witness ==
    /\ rules_call.phase = "applied"
    /\ rules_call.amount = 1500000
    /\ rules_call.merchant = "SUSPICIOUS Starbucks"
    /\ rules_call.base_score = 100
    /\ MatchingFloors(rules_call.amount, rules_call.merchant) = {800, 600, 1200}
    /\ rules_call.result = 1200

\* C2: for an amount >= 0 and a base score in [0,1] the result r of the overlay
\* satisfies baseScore <= r <= 1.0
C2_NeverLowersStaysInRange ==
    (RulesApplied /\ rules_call.amount >= 0
       /\ rules_call.base_score >= 0 /\ rules_call.base_score <= 10000)
    => (rules_call.base_score <= rules_call.result /\ rules_call.result <= 10000)

\* a base score above the floor of the one matching rule comes back unchanged
C2_Witness ==
    /\ rules_call.phase = "applied"
    /\ rules_call.amount = 7500
    /\ rules_call.merchant = "Unknown Vendor"
    /\ rules_call.base_score = 5000
    /\ rules_call.result = 5000

\* C3: the overlay is idempotent: applyRules(a, m, applyRules(a, m, s)) =
\* applyRules(a, m, s); the value depends on the three arguments alone
C3_Idempotent ==
    rules_call.phase = "reapplied" => rules_call.again = rules_call.result

\* a call that raised the score has been fed back its own result
C3_Witness ==
    /\ rules_call.phase = "reapplied"
    /\ rules_call.result > rules_call.base_score
    /\ rules_call.again = rules_call.result

(***************************************************************************)
(* Properties of the chat's fraud inquiry                                  *)
(***************************************************************************)
\* the last operation was a chat fraud inquiry that went on to score
ScoredInquiry ==
    /\ last.op = "chat"
    /\ last.trace.kind = "inquiry"
    /\ last.trace.scored

\* the payload a scored inquiry builds for its transaction
InquiryVector ==
    PyDict(build_transaction_vector(last.trace.amount, last.trace.merchant), {})

\* C4: when the algorithm used for scoring is ready and its pipeline takes the
\* vector of the inquiry, the reported score is applyRules(amount, merchant, s)
\* with s the score predict returns for that vector, and the fallback is not taken
C4_ReportsModelScore ==
    LET Used == {last.trace.algorithm, _active_algorithm}
    IN  (/\ ScoredInquiry
         /\ \A a \in Used : /\ is_ready(Registry, a)
                            /\ ~predict_fraud(Registry, InquiryVector, a).raised)
        => /\ last.status = 200
           /\ ~HasError(last.trace.result)
           /\ \E a \in Used :
                 last.response.score =
                    _apply_fraud_business_rules(last.trace.amount, last.trace.merchant,
                        predict_fraud(Registry, InquiryVector, a).score)

\* C5: when scoring errors during a chat inquiry with an amount, the user gets a
\* formatted analysis with score applyRules(amount, merchant, 0.01), confidence
\* 0.85 and the decision of that score, and the handler returns
C5_FallbackOnScoringError ==
    (ScoredInquiry /\ HasError(last.trace.result))
    => /\ last.status = 200
       /\ last.response.kind = "analysis"
       /\ last.response.score =
             _apply_fraud_business_rules(last.trace.amount, last.trace.merchant, 100)
       /\ last.response.confidence = 8500
       /\ last.response.status =
             (IF last.response.score < 100 THEN "LEGITIMATE"
              ELSE IF last.response.score < 500 THEN "REQUIRES REVIEW" ELSE "BLOCKED")

\* predict raised 'not loaded' and the user got the analysis of the rules alone
C5_Witness ==
    /\ ScoredInquiry
    /\ last.trace.raised = "RuntimeError"
    /\ HasError(last.trace.result)
    /\ last.status = 200
    /\ last.response.kind = "analysis"
    /\ last.response.score = 800
    /\ last.response.confidence = 8500
    /\ last.response.status = "BLOCKED"

(***************************************************************************)
(* Properties of the chat operation and its routing                        *)
(***************************************************************************)
\* C6: chat never fails its caller: whatever the lookup or a handler does, the
\* operation ends by returning a text response
C6_ChatReturnsText ==
    last.op = "chat" => (last.status = 200 /\ "response" \in DOMAIN last)

\* the decision list of process_message, in order
BranchOrder ==
    <<"greeting", "user_info", "transaction_history", "algorithm_selection",
      "fraud_inquiry", "algorithm_info">>

\* the keyword set of a branch matches the message
BranchMatches(message, branch) ==
    LET p == ParsedMessages[message]
    IN  CASE branch = "greeting" -> p.greeting
          [] branch = "user_info" -> p.user_info
          [] branch = "transaction_history" -> p.transaction_history
          [] branch = "algorithm_selection" -> p.selected_algo # None
          [] branch = "fraud_inquiry" -> p.fraud_inquiry
          [] branch = "algorithm_info" -> p.algorithm_info

\* the positions in the decision list whose keyword set matches the message
MatchingBranches(message) ==
    {k \in 1..Len(BranchOrder) : BranchMatches(message, BranchOrder[k])}

\* the response texts each branch can end in
BranchTexts(branch) ==
    CASE branch = "greeting" -> {"greeting"}
      [] branch = "user_info" -> {"account_not_found", "account_info"}
      [] branch = "transaction_history" ->
            {"no_fraud_cases", "no_transactions", "largest", "smallest", "summary", "list"}
      [] branch = "algorithm_selection" -> {"select_error", "switched"}
      [] branch = "fraud_inquiry" -> {"need_amount", "analysis"}
      [] branch = "algorithm_info" -> {"algorithm_info"}
      [] branch = "default" -> {"default"}

\* C7: exactly one branch handles a message, the earliest of the decision list
\* whose keywords match; the default response is returned iff none matches
C7_FirstMatchWins ==
    last.op = "chat" =>
        LET M == MatchingBranches(last.message)
        IN  /\ Len(last.branches) = 1
            /\ M # {} => last.branches[1] =
                            BranchOrder[CHOOSE k \in M : \A j \in M : k <= j]
            /\ M = {} <=> last.branches[1] = "default"
            /\ last.status = 200 =>
                  /\ last.response.kind \in BranchTexts(last.branches[1])
                  /\ M = {} <=> last.response.kind = "default"

\* a message with the history keywords and the fraud keywords got the history
C7_Witness ==
    /\ last.op = "chat"
    /\ last.message = "Check transaction for $500 at Starbucks"
    /\ {3, 5} \subseteq MatchingBranches(last.message)
    /\ last.branches = <<"transaction_history">>
    /\ last.status = 200
    /\ last.response.kind \in BranchTexts("transaction_history")

\* the last chat repeats the (user, message) pair whose first routing is kept
ProbeRepeated ==
    /\ probe.armed
    /\ probe.seen
    /\ last.op = "chat"
    /\ last.user_id = probe.user_id
    /\ last.message = probe.message

\* C8: the same message text from the same user selects the same branch, whatever
\* the sessions, the active algorithm and the loaded bundles are
C8_RoutingStateIndependent ==
    ProbeRepeated => last.branches = probe.branches

\* the pair is routed again after the active algorithm, the user's session and
\* another user's session have changed, and a bundle has been loaded
C8_Witness ==
    /\ ProbeRepeated
    /\ probe.active = "ann"
    /\ probe.session = NoSession
    /\ _active_algorithm = "svm"
    /\ _models["svm"] # NoBundle
    /\ session_state[probe.user_id] # NoSession
    /\ session_state[probe.user_id].algorithm = "svm"
    /\ session_state["bob"] # NoSession
    /\ last.branches = <<"fraud_inquiry">>

(***************************************************************************)
(* Properties of reads against the registry                                *)
(***************************************************************************)
\* what a read against an algorithm without a bundle ends in
C9_NotLoadedIsReported ==
    /\ \A a \in Algorithms \cup {"rf", None} :
          ~is_ready(Registry, a) =>
             /\ \A payload \in ScorePayloads :
                   LET p == predict_fraud(Registry, payload, a)
                   IN  p.raised /\ p.exception = "RuntimeError" /\ p.error = "not loaded"
             /\ HasError(get_metrics(Registry, a))
             /\ get_metrics(Registry, a).error = "not loaded"
    /\ (last.op = "score" /\ ~last.ready)
          => (last.status = 503 /\ last.body.error = "not loaded")
    /\ (last.op = "detect_fraud" /\ ~last.ready /\ last.status \notin {404, 400})
          => (last.status = 503 /\ last.body.detail = "not loaded")
    /\ (ScoredInquiry /\ ~is_ready(Registry, None))
          => /\ last.status = 200
             /\ HasError(last.trace.result)
             /\ last.trace.result.cause = "not loaded"
             /\ last.response.kind = "analysis"

\* a read that found no bundle leaves the bundle map and the active pointer alone
C9_FailedReadKeepsRegistry ==
    (\/ last'.op \in {"score", "detect_fraud"} /\ ~last'.ready
     \/ /\ last'.op = "chat"
        /\ last'.trace.kind = "inquiry"
        /\ last'.trace.scored
        /\ last'.trace.raised = "RuntimeError")
    => (_models' = _models /\ _active_algorithm' = _active_algorithm)

\* C9: a read against an algorithm that has no bundle fails cleanly on every
\* path: predict_fraud signals 'not loaded', get_metrics returns the structured
\* error, the chat's local /score, POST /score and POST /detect_fraud answer with
\* a not-loaded response, and the bundle map and active pointer are unchanged
C9_NotLoadedFailsCleanly ==
    [](C9_NotLoadedIsReported) /\ [][C9_FailedReadKeepsRegistry]_vars

\* POST /score named an algorithm without a bundle while another one was loaded
C9_Witness ==
    /\ last.op = "score"
    /\ last.algorithm = "knn"
    /\ ~last.ready
    /\ last.status = 503
    /\ _models["knn"] = NoBundle
    /\ \E a \in Algorithms : _models[a] # NoBundle

\* C10 as stated: no registry operation the chatbot calls raises into the
\* chatbot's code; every failure comes back as a returned value
C10_RegistryNeverRaises ==
    ScoredInquiry => last.trace.raised = "none"

\* C10: predict_fraud raises into call_ml_api, which catches the exception and
\* returns a structured error result, so no exception of the registry passes
\* call_ml_api into a handler; a failed activation comes back as a value
C10_RaisesStopInCallMlApi ==
    /\ ScoredInquiry =>
          /\ "raised" \notin DOMAIN last.trace.result
          /\ last.trace.raised # "none" => HasError(last.trace.result)
          /\ last.status = 200
    /\ (last.op = "chat" /\ last.trace.kind = "select") =>
          /\ last.status = 200
          /\ ~last.trace.ok <=> last.response.kind = "select_error"

\* predict_fraud raised on the payload it was handed and call_ml_api returned
\* the error result
C10_Witness ==
    /\ ScoredInquiry
    /\ last.trace.raised = "AttributeError"
    /\ last.trace.result.error = "Scoring failed"
    /\ last.status = 200

(***************************************************************************)
(* The registry's life: C11..C17                                           *)
(***************************************************************************)
\* C11: set_active_algorithm with an identifier outside {ann, svm, knn} returns
\* failure before it changes anything: the active pointer, the bundle map and
\* the artifacts are as they were, and train_algorithm is not invoked
C11_InvalidIdRejectedFirst ==
    (last.op = "set_active_algorithm" /\ last.algorithm \notin {"ann", "svm", "knn"})
    => /\ ~last.ok
       /\ ~last.train_called
       /\ ~last.data_loaded
       /\ Registry = last.before

\* "rf" was asked for while svm was active with a bundle and an artifact
C11_Witness ==
    /\ last.op = "set_active_algorithm"
    /\ last.algorithm = "rf"
    /\ last.before.active = "svm"
    /\ last.before.models["svm"] # NoBundle
    /\ last.before.artifacts["svm"].file = "pickle"
    /\ _active_algorithm = "svm"

\* the last operation was set_active_algorithm on one of ann, svm, knn
SetActiveOnValid ==
    last.op = "set_active_algorithm" /\ last.algorithm \in Algorithms

\* C12: set_active_algorithm(a) for a valid a without an in-memory bundle first
\* calls train_algorithm(a, force_retrain=False), which prefers a persisted
\* artifact, and moves the pointer only when that succeeds; on failure it returns
\* false and the pointer keeps its value. With a bundle in memory nothing is
\* trained or loaded. Whenever it returns true, active = a and is_ready(a)
C12_ActivationEnsuresBundle ==
    SetActiveOnValid =>
       /\ last.before.models[last.algorithm] = NoBundle =>
             /\ last.train_called
             /\ last.data_loaded <=> load_model(last.before, last.algorithm) = NoBundle
             /\ last.ok => _models[last.algorithm] # NoBundle
             /\ ~last.ok => _active_algorithm = last.before.active
       /\ last.before.models[last.algorithm] # NoBundle =>
             /\ last.ok
             /\ ~last.train_called
             /\ ~last.data_loaded
             /\ _models = last.before.models
             /\ artifacts = last.before.artifacts
             /\ fits = last.before.fits
       /\ last.ok => (_active_algorithm = last.algorithm /\ is_ready(Registry, last.algorithm))

\* knn had no bundle and its training failed while svm was active
C12_Witness ==
    /\ SetActiveOnValid
    /\ last.algorithm = "knn"
    /\ last.before.models["knn"] = NoBundle
    /\ last.before.active = "svm"
    /\ last.train_called
    /\ ~last.ok
    /\ _active_algorithm = "svm"

\* the last operation was train_algorithm on one of ann, svm, knn
TrainOnValid ==
    last.op = "train_algorithm" /\ last.algorithm \in Algorithms

\* the registry with the bundle of algorithm replaced by what load_model reads
Reloaded(reg, algorithm) ==
    [reg EXCEPT !.models[algorithm] = load_model(reg, algorithm)]

\* C13: train_algorithm(a, force_retrain=False) with a loadable artifact is a
\* pure cache hit: it returns true without loading the dataset or fitting, it
\* does not rewrite the artifact, and the in-memory bundle becomes the bundle
\* last saved. A bundle just saved reloads as itself, so a prediction is the
\* same before the save and after the reload. Training from the dataset happens
\* only when force_retrain is set or no artifact loads
C13_CacheHitIsPure ==
    TrainOnValid =>
       /\ (~last.force_retrain /\ load_model(last.before, last.algorithm) # NoBundle) =>
             /\ last.ok
             /\ ~last.data_loaded
             /\ artifacts = last.before.artifacts
             /\ fits = last.before.fits
             /\ _active_algorithm = last.before.active
             /\ _models = [last.before.models EXCEPT
                              ![last.algorithm] = load_model(last.before, last.algorithm)]
       /\ last.data_loaded =>
             (last.force_retrain \/ load_model(last.before, last.algorithm) = NoBundle)
       /\ (last.ok /\ last.data_loaded) =>
             /\ load_model(Registry, last.algorithm) = _models[last.algorithm]
             /\ \A payload \in ScorePayloads :
                   predict_fraud(Reloaded(Registry, last.algorithm), payload, last.algorithm)
                      = predict_fraud(Registry, payload, last.algorithm)

\* after a restart the artifact that an earlier run saved was taken from disk
C13_Witness ==
    /\ TrainOnValid
    /\ ~last.force_retrain
    /\ ~last.data_loaded
    /\ last.ok
    /\ last.before.models[last.algorithm] = NoBundle
    /\ _models[last.algorithm] = Bundle(last.algorithm, 1)

\* the last train_algorithm went to the dataset and an exception came before the
\* bundle was built: the dataset, the fit or the evaluation
TrainFailedBeforeBundle ==
    last.op = "train_algorithm" /\ last.data_loaded /\ last.fault = "fit"

\* C14: when the dataset is unavailable or fitting or evaluation raises,
\* train_algorithm returns false without raising and writes no partial state:
\* the bundle map, the artifacts and the active pointer are unchanged, and a
\* bundle that was ready before a failed forced retrain is still ready and the same
C14_FailedFitWritesNothing ==
    TrainFailedBeforeBundle =>
       /\ ~last.ok
       /\ _models = last.before.models
       /\ artifacts = last.before.artifacts
       /\ _active_algorithm = last.before.active
       /\ \A a \in Algorithms :
             is_ready(last.before, a) =>
                (is_ready(Registry, a) /\ _models[a] = last.before.models[a])

\* a forced retrain of the active, ready algorithm failed in the fit
C14_Witness ==
    /\ TrainFailedBeforeBundle
    /\ last.force_retrain
    /\ is_ready(last.before, last.algorithm)
    /\ last.before.active = last.algorithm
    /\ last.before.artifacts[last.algorithm].file = "pickle"
    /\ ~last.ok

\* C15 as stated: entries persist on creation. In every state reached by
\* train_algorithm and set_active_algorithm calls in which each step of a
\* training run (dataset load, fit, evaluate, artifact write) may fail, every
\* algorithm with an in-memory bundle has a persisted artifact that holds that
\* same bundle, so a non-forced train_algorithm after a restart reloads it
C15_BundlesArePersisted ==
    \A a \in Algorithms :
        _models[a] # NoBundle =>
           /\ artifacts[a].file = "pickle"
           /\ load_model(Registry, a) = _models[a]
           /\ train_algorithm([Registry EXCEPT !.models = [x \in Algorithms |-> NoBundle],
                                               !.active = "ann"],
                              a, FALSE, "none").reg.models[a] = _models[a]

\* the pointer names one of the three algorithms, and it names an algorithm
\* without a bundle only while it is the initial 'ann'
ActivePointerOk ==
    /\ _active_algorithm \in {"ann", "svm", "knn"}
    /\ ~is_ready(Registry, _active_algorithm) => _active_algorithm = "ann"

\* within one run of the process the pointer moves only in a successful
\* set_active_algorithm, to the algorithm asked for, and no bundle leaves memory
ActivePointerStep ==
    last'.op # "restart" =>
       /\ _active_algorithm' # _active_algorithm =>
             /\ last'.op = "set_active_algorithm"
             /\ last'.ok
             /\ _active_algorithm' = last'.algorithm
       /\ \A a \in Algorithms : _models[a] # NoBundle => _models'[a] # NoBundle
       /\ (last'.op = "set_active_algorithm" /\ ~last'.ok)
             => _active_algorithm' = _active_algorithm

\* C16: the active pointer always names one of ann, svm, knn; it changes only in
\* a successful set_active_algorithm; no operation removes a bundle from memory,
\* so after a successful set_active_algorithm the active algorithm has a ready
\* bundle in every later state; the pointer names an absent entry only while it
\* holds the initial 'ann' that was never trained or loaded
C16_ActivePointerInvariant ==
    [](ActivePointerOk) /\ [][ActivePointerStep]_vars

\* startup failed, svm was activated, and a later failed training of knn left
\* svm active and ready while ann never got a bundle
C16_Witness ==
    /\ last.op = "train_algorithm"
    /\ last.algorithm = "knn"
    /\ ~last.ok
    /\ _active_algorithm = "svm"
    /\ is_ready(Registry, "svm")
    /\ _models["ann"] = NoBundle

\* the algorithms with an artifact file on disk or a bundle in memory
FileOrBundle ==
    {a \in {"ann", "svm", "knn"} : artifacts[a].file # "missing" \/ _models[a] # NoBundle}

\* C17: get_available_algorithms returns exactly the algorithms among ann, svm,
\* knn that have an artifact file or an in-memory bundle; every is_ready
\* algorithm is listed; an algorithm with an artifact that is not loaded is
\* listed although is_ready is false; the chat's algorithm information labels
\* an algorithm 'Ready' exactly when it is in this list
C17_AvailableIsFileOrBundle ==
    /\ last.op = "algorithms" =>
          /\ last.body.available = FileOrBundle
          /\ \A a \in Algorithms : is_ready(Registry, a) => a \in last.body.available
          /\ \A a \in Algorithms :
                (artifacts[a].file # "missing" /\ ~is_ready(Registry, a))
                   => a \in last.body.available
    /\ (last.op = "chat" /\ last.status = 200 /\ last.response.kind = "algorithm_info") =>
          \A a \in Algorithms :
             last.response.status[a] = "Ready" <=> a \in FileOrBundle

\* the chat labelled svm 'Ready' from its artifact alone, ann from its bundle,
\* and knn 'Not Available'
C17_Witness ==
    /\ last.op = "chat"
    /\ last.response.kind = "algorithm_info"
    /\ last.response.status["svm"] = "Ready"
    /\ artifacts["svm"].file # "missing"
    /\ ~is_ready(Registry, "svm")
    /\ last.response.status["ann"] = "Ready"
    /\ is_ready(Registry, "ann")
    /\ last.response.status["knn"] = "Not Available"

(***************************************************************************)
(* Decisions, feature vectors and the inquiry's amount: C18..C20           *)
(***************************************************************************)
\* what _format_fraud_response prints for a decision
StatusOf(decision) ==
    IF decision = "allow" THEN "LEGITIMATE"
    ELSE IF decision = "challenge" THEN "REQUIRES REVIEW"
    ELSE "BLOCKED"

\* the one decision that every scoring path gives the score, if there is one
SameDecisionEverywhere(score, decision) ==
    /\ decision = ChatDecision(score)
    /\ decision = HttpDecision(score)
    /\ decision = apply_policy(score).decision

\* C18 as stated: the decision boundary has a single source of truth. Every
\* scoring path (the chat's local /score in call_ml_api, the chat's fraud
\* inquiry and its fallback, POST /score, POST /detect_fraud, apply_policy)
\* maps the same score to the same decision
C18_OneDecisionBoundary ==
    /\ (last.op = "score" /\ last.status = 200) =>
          SameDecisionEverywhere(last.body.score, last.body.decision)
    /\ (last.op = "detect_fraud" /\ last.status = 200) =>
          \A k \in 1..Len(last.body.results) :
             SameDecisionEverywhere(last.body.results[k].score,
                                    last.body.results[k].decision)
    /\ (last.op = "chat" /\ last.status = 200 /\ last.response.kind = "analysis") =>
          \E decision \in {"allow", "challenge", "block"} :
             /\ last.response.status = StatusOf(decision)
             /\ SameDecisionEverywhere(last.response.score, decision)

\* C19: for every amount >= 0 and every merchant (absent, empty or any string,
\* whichever override fires) build_transaction_vector returns a mapping whose
\* keys are exactly Time, Amount and V1..V28 (30 keys, none added by the
\* merchant overrides and none missing), with Amount the input amount and Time
\* the constant 10000 (both in thousandths here); the call changes no state
C19_VectorHasThirtyKeys ==
    last.op = "build_transaction_vector" =>
       /\ DOMAIN last.vector = {"Time", "Amount"} \cup {"V" \o ToString(i) : i \in 1..28}
       /\ Cardinality(DOMAIN last.vector) = 30
       /\ last.vector["Amount"] = 10 * last.amount
       /\ last.vector["Time"] = 10000000
       /\ \A f \in DOMAIN last.vector : last.vector[f] \in Int
       /\ _models = [a \in Algorithms |-> NoBundle]
       /\ session_state = [u \in UserIds |-> NoSession]

\* the unknown-merchant override has rewritten V20..V27 of a vector
C19_Witness ==
    /\ last.op = "build_transaction_vector"
    /\ last.merchant = "Unknown Vendor"
    /\ last.amount = 7500
    /\ last.vector["V20"] = 3000
    /\ last.vector["V27"] = 3700
    /\ last.vector["V28"] = 100

\* the last chat message went to the fraud-inquiry branch
InquiryBranch ==
    last.op = "chat" /\ last.status = 200 /\ last.trace.kind = "inquiry"

\* C20 as stated: in the fraud-inquiry branch the clarification prompt is
\* returned exactly when no amount is extracted from the message, and then the
\* inquiry goes no further (no scoring); whenever extract_amount yields a number
\* (any value >= 0, including 0) the inquiry proceeds to scoring and returns an
\* analysis instead of the prompt
C20_PromptOnlyWithoutAmount ==
    InquiryBranch =>
       /\ last.response.kind = "need_amount" <=> last.trace.amount = NoAmount
       /\ last.response.kind = "need_amount" => ~last.trace.scored
       /\ last.trace.amount >= 0 =>
             (last.trace.scored /\ last.response.kind = "analysis")

(***************************************************************************)
(* Properties of the chat's sessions and selections: C21, C22, C30         *)
(***************************************************************************)
\* the session algorithm of user u, as get_session_state reads it
SessionAlgorithm(sessions, u) ==
    IF sessions[u] = NoSession THEN "ann" ELSE sessions[u].algorithm

\* one algorithm-selection chat message, from the state before it to the state
\* after it
SelectionStep ==
    (last'.op = "chat" /\ last'.status = 200 /\ last'.trace.kind = "select") =>
       /\ last'.trace.ok =>
             /\ last'.response.kind = "switched"
             /\ session_state'[last'.user_id].algorithm = last'.response.algorithm
             /\ _active_algorithm' = last'.response.algorithm
             /\ _models'[last'.response.algorithm] # NoBundle
             /\ last'.response.metrics = _models'[last'.response.algorithm].metrics
       /\ ~last'.trace.ok =>
             /\ last'.response.kind = "select_error"
             /\ _active_algorithm' = _active_algorithm
             /\ SessionAlgorithm(session_state', last'.user_id)
                   = SessionAlgorithm(session_state, last'.user_id)

\* C21: an algorithm-selection chat message naming a switches the session
\* through set_active_algorithm: when that succeeds, afterwards the user's
\* session algorithm is a, the active pointer is a, and the metrics in the
\* response are the stored metrics of a's bundle; when it fails, an error text
\* is returned and the session algorithm and the active pointer keep their values
C21_SelectionSwitchesSession ==
    [][SelectionStep]_vars

\* alice switched to knn, which was trained for it, and saw the metrics of that fit
C21_Witness ==
    /\ last.op = "chat"
    /\ last.trace.kind = "select"
    /\ last.trace.ok
    /\ last.response.algorithm = "knn"
    /\ last.response.metrics = [algorithm |-> "knn", fit |-> 1]
    /\ session_state["alice"].algorithm = "knn"
    /\ _active_algorithm = "knn"

\* the last chat message was a selection that succeeded
SelectionSucceeded ==
    last.op = "chat" /\ last.status = 200 /\ last.trace.kind = "select" /\ last.trace.ok

\* every user id has at most one entry, and an entry names one of the algorithms
SessionsWellFormed ==
    /\ DOMAIN session_state = UserIds
    /\ \A u \in UserIds :
          session_state[u] # NoSession =>
             (session_state[u].present /\ session_state[u].algorithm \in Algorithms)

\* what one step does to the sessions
SessionStep ==
    /\ last'.op = "chat" =>
          /\ \A v \in UserIds \ {last'.user_id} : session_state'[v] = session_state[v]
          /\ session_state'[last'.user_id] # NoSession
          /\ ~SelectionSucceeded' =>
                session_state'[last'.user_id] =
                   (IF session_state[last'.user_id] = NoSession
                    THEN [present |-> TRUE, algorithm |-> "ann",
                          conversation_stage |-> "greeting"]
                    ELSE session_state[last'.user_id])
          /\ SelectionSucceeded' =>
                session_state'[last'.user_id] =
                   [present |-> TRUE, algorithm |-> last'.response.algorithm,
                    conversation_stage |-> "greeting"]
    /\ \A v \in UserIds :
          (session_state[v] # NoSession /\ session_state'[v] = NoSession)
             => (last'.op = "clear_session" /\ last'.user_id = v)
    /\ last'.op \notin {"chat", "clear_session"} => session_state' = session_state

\* C22: after any sequence of chat messages and session clears there is at most
\* one session entry per user id; the entry of u is created with algorithm 'ann'
\* by u's first message, whatever branch handles it, and exists in every later
\* state until clear_session(u); a message of u never creates, changes or
\* deletes the entry of another user, and only a successful algorithm-selection
\* message of u changes a field of u's entry
C22_SessionsPerUser ==
    [](SessionsWellFormed) /\ [][SessionStep]_vars

\* bob's first message failed in its handler and still created his entry,
\* while alice's entry kept the algorithm she had selected
C22_Witness ==
    /\ last.op = "chat"
    /\ last.user_id = "bob"
    /\ last.status = 500
    /\ session_state["bob"] = NewSession
    /\ session_state["alice"] # NoSession
    /\ session_state["alice"].algorithm = "svm"

(***************************************************************************)
(* Properties of concurrent reads: C23                                     *)
(***************************************************************************)
\* C23: readers never observe a bundle mid-write. Under every interleaving of a
\* writer (train_algorithm, set_active_algorithm) with a reader (predict_fraud,
\* get_metrics, after their is_ready check) the reader obtains the complete
\* bundle of one training, never model, scaler, feature order and metrics of
\* two trainings, and an entry whose readiness check passed is present when the
\* reader fetches it
C23_ReadersSeeWholeBundles ==
    /\ threads.reader.pc = "ready" => _models[threads.reader.algo] # NoBundle
    /\ threads.reader.pc = "fetched" =>
          /\ threads.reader.fetched # NoBundle
          /\ threads.reader.fetched.scaler = threads.reader.fetched.model
          /\ threads.reader.fetched.metrics.fit = threads.reader.fetched.model
          /\ threads.reader.fetched.metrics.algorithm = threads.reader.algo
          /\ threads.reader.fetched.feature_order = FeatureOrder

\* a reader that had passed its readiness check fetched the new svm bundle while
\* the retraining that built it had not yet saved it
C23_Witness ==
    /\ threads.reader.pc = "fetched"
    /\ threads.reader.algo = "svm"
    /\ threads.reader.fetched = Bundle("svm", 1)
    /\ threads.writer.pc = "storing"
    /\ threads.writer.algorithm = "svm"
    /\ artifacts["svm"] = PickleFile(Bundle("svm", 0))

(***************************************************************************)
(* Properties of the transaction history: C24                              *)
(***************************************************************************)
\* the last chat message was answered by the transaction-history branch
HistoryBranch ==
    last.op = "chat" /\ last.status = 200 /\ last.trace.kind = "history"

\* the number a history answer shows, when it shows one
ShownCount ==
    IF last.response.kind \in {"list", "summary"} THEN last.response.count ELSE 0

\* C24: in the transaction-history branch the number of transactions requested
\* from storage is min(N, 20), so at most 20, when the message contains 'last N'
\* or 'recent N'; otherwise it is 10 when a sub-intent (largest, smallest,
\* summary) was matched and 5 for the plain list; the fraud-only filter works on
\* that limited set and can only remove entries from it
C24_HistoryLimit ==
    HistoryBranch =>
       /\ last.trace.limit <= 20
       /\ ParsedMessages[last.message].limit_match # NoAmount =>
             /\ ParsedMessages[last.message].limit_match <= 20
                   => last.trace.limit = ParsedMessages[last.message].limit_match
             /\ ParsedMessages[last.message].limit_match > 20 => last.trace.limit = 20
       /\ ParsedMessages[last.message].limit_match = NoAmount =>
             last.trace.limit =
                (IF AnyIn(lower(last.message),
                          {"largest", "biggest", "highest", "smallest", "lowest",
                           "review", "summary", "analyze"})
                 THEN 10 ELSE 5)
       /\ last.trace.fetched <= last.trace.limit
       /\ ShownCount <= last.trace.fetched

\* of alice's three transactions the two most recent were fetched for 'last 2',
\* and the fraud filter kept one of them
C24_Witness ==
    /\ HistoryBranch
    /\ last.message = "last 2 fraud transactions"
    /\ last.trace.limit = 2
    /\ last.trace.fetched = 2
    /\ last.response.kind = "list"
    /\ last.response.count = 1

(***************************************************************************)
(* The extractors taken alone: one call of each on a drawn text            *)
(***************************************************************************)
\* the texts are a beginning, a way to name an amount and a way to name a merchant
TextHeads == {"", "Is ", "Check transaction for ", "I paid ", "2 items for "}

TextAmounts == {"$500", "$12.50", "50 dollars", "1 dollar", "amount of 75", "nothing"}

TextMerchants ==
    {"", " at Starbucks", " from amazon", " merchant is Target",
     " purchased Whole Foods", " merchant target at walmart", " to mcdonalds"}

\* self.extract_amount(message) and self.extract_merchant(message)
ExtractEntities ==
    /\ last.op = "none"
    /\ \E head \in TextHeads, amount \in TextAmounts, merchant \in TextMerchants :
          last' = [op |-> "extract", head |-> head, named |-> amount, place |-> merchant,
                   message |-> head \o amount \o merchant,
                   amount |-> extract_amount(head \o amount \o merchant),
                   merchant |-> extract_merchant(head \o amount \o merchant)]
    /\ UNCHANGED <<registry_vars, session_state, probe, rules_call, threads>>

NextExtract == ExtractEntities

SpecExtract == InitVector /\ [][NextExtract]_vars

(***************************************************************************)
(* Properties of the extractors: C25                                       *)
(***************************************************************************)
\* the amount, in cents, that a way to name an amount names
NamedAmount(named) ==
    CASE named = "$500" -> 50000
      [] named = "$12.50" -> 1250
      [] named = "50 dollars" -> 5000
      [] named = "1 dollar" -> 100
      [] named = "amount of 75" -> 7500
      [] OTHER -> NoAmount

\* the merchant that a way to name a merchant names
NamedMerchant(place) ==
    CASE place = " at Starbucks" -> "Starbucks"
      [] place = " from amazon" -> "Amazon"
      [] place = " merchant is Target" -> "Target"
      [] place = " purchased Whole Foods" -> "Whole Foods"
      [] place = " merchant target at walmart" -> "Walmart"
      [] place = " to mcdonalds" -> "McDonald's"
      [] OTHER -> None

\* C25 as stated: for a message of the form '... N dollars' or '... amount of N'
\* the extracted amount is N, whatever stands before it
C25_NamedAmountIsExtracted ==
    (last.op = "extract" /\ last.named \in {"50 dollars", "1 dollar", "amount of 75"})
        => last.amount = NamedAmount(last.named)

\* C25: the patterns are tried in a fixed order and the first that matches wins.
\* The first amount pattern takes a number with or without '$', so the amount
\* is the first number of the message: the N of '$N.NN', 'N dollars' or
\* 'amount of N' when no digit stands before it, the earlier number otherwise.
\* The merchant is the X of 'at|from|to X' before that of 'merchant X' and of
\* 'purchased X', mapped through the brand table and title-cased otherwise.
\* "Check transaction for $500 at Starbucks" gives 500.0 and "Starbucks".
C25_FirstPatternWins ==
    last.op = "extract" =>
       /\ last.head # "2 items for " => last.amount = NamedAmount(last.named)
       /\ last.head = "2 items for " => last.amount = 200
       /\ last.merchant = NamedMerchant(last.place)
       /\ last.message = "Check transaction for $500 at Starbucks"
             => last.amount = 50000 /\ last.merchant = "Starbucks"

\* 'N dollars' after an earlier number: the earlier number is the amount
C25_Witness ==
    /\ last.op = "extract"
    /\ last.message = "2 items for 50 dollars merchant target at walmart"
    /\ last.amount = 200
    /\ last.merchant = "Walmart"

\* the example of the specification
C25_ExampleWitness ==
    /\ last.op = "extract"
    /\ last.message = "Check transaction for $500 at Starbucks"
    /\ last.amount = 50000
    /\ last.merchant = "Starbucks"

(***************************************************************************)
(* The commands of the help text, sent as chat messages                    *)
(***************************************************************************)
NextHelp ==
    \/ Startup
    \/ ChatMessage(ChatUsers, HelpCommands)
    \/ ClearSession(ChatUsers)

SpecHelp == Init /\ [][NextHelp]_vars

(***************************************************************************)
(* Properties of the help text: C26                                        *)
(***************************************************************************)
\* the branch under which the command list advertises a command
AdvertisedBranch(command) ==
    CASE command \in {"transactions", "transaction history", "largest transaction",
                      "smallest transaction", "transaction summary",
                      "fraud activity", "fraud cases", "do i have fraud"}
            -> "transaction_history"
      [] command \in {"Check transaction for $500 at Amazon", "Is $1000 fraud?"}
            -> "fraud_inquiry"
      [] command \in {"account info", "my account", "my stats"} -> "user_info"
      [] command \in {"Use SVM algorithm", "Use neural network", "Use KNN"}
            -> "algorithm_selection"
      [] command \in {"What algorithms are available?", "Show algorithm performance"}
            -> "algorithm_info"
      [] OTHER -> "greeting"

\* C26: every example command of the help text is handled by the branch it is
\* advertised under; the two fraud-detection commands with an amount are
\* answered by the fraud-inquiry branch with an analysis of that amount, the
\* three 'Use ...' commands by the algorithm-selection branch
C26_HelpCommandsReachTheirBranch ==
    (last.op = "chat" /\ last.message \in HelpCommands) =>
       /\ Head(last.branches) = AdvertisedBranch(last.message)
       /\ AdvertisedBranch(last.message) = "fraud_inquiry" =>
             /\ last.trace.kind = "inquiry"
             /\ last.trace.amount = ParsedMessages[last.message].amount
       /\ AdvertisedBranch(last.message) = "algorithm_selection" =>
             last.trace.kind = "select"

(***************************************************************************)
(* Properties of the merchant overrides of the vector: C27                 *)
(***************************************************************************)
\* C27: in build_transaction_vector the anomaly override (V20..V27 set to
\* 1.0 + 0.1*j) is applied for every merchant whose lower-cased text contains
\* 'unknown' or 'suspicious' and for every amount, whether or not the merchant
\* also meets a brand condition; and each brand override (coffee, rideshare,
\* grocery) is applied whenever its own condition holds
C27_OverridesAreIndependent ==
    (last.op = "build_transaction_vector" /\ Truthy(last.merchant)) =>
       /\ (InLower(last.merchant, "unknown") \/ InLower(last.merchant, "suspicious"))
             => \A j \in 20..27 : last.vector["V" \o ToString(j)] = 1000 + 100 * j
       /\ (InLower(last.merchant, "starbucks") /\ last.amount > 50000)
             => (last.vector["V14"] = 2500 /\ last.vector["V15"] = 1800)
       /\ (InLower(last.merchant, "uber") /\ last.amount > 30000)
             => last.vector["V16"] = 2200
       /\ (InLower(last.merchant, "whole foods") /\ last.amount < 2000)
             => last.vector["V17"] = 1500

(***************************************************************************)
(* Properties of POST /detect_fraud: C28                                   *)
(***************************************************************************)
\* C28: predict_fraud scores the payload read in the feature order of the
\* bundle, 0.0 standing for each missing key, and POST /detect_fraud/{user_id}
\* scores every stored transaction on its own values: each stored value of the
\* transaction is among the values scored (not replaced by the 0.0 default), so
\* two transactions that differ in a stored value are scored on different vectors
C28_RowsScoredOnOwnValues ==
    (last.op = "detect_fraud" /\ last.status = 200) =>
       /\ \A k \in 1..last.rows :
             /\ Len(last.scored[k]) = Len(FeatureOrder)
             /\ \A i \in 1..Len(last.stored[k]) :
                   \E j \in 1..Len(last.scored[k]) :
                       last.scored[k][j] = last.stored[k][i]
       /\ \A k, l \in 1..last.rows :
             last.stored[k] # last.stored[l] => last.scored[k] # last.scored[l]

(***************************************************************************)
(* The decision of the chat path taken alone: the decision of two drawn    *)
(* scores, and the rules-only fallback on a drawn amount and merchant      *)
(***************************************************************************)
\* amounts in cents that pass 'if not amount'
FallbackAmounts ==
    {5, 9, 10, 499, 500, 7500, 30000, 30001, 50000, 50001, 60000, 1000000, 1000001,
     1500000}

\* _handle_fraud_inquiry: the decision recalculated from the enhanced score
DecideChat ==
    /\ \E first \in RuleScores, second \in RuleScores :
          last' = [op |-> "chat_decision", first |-> scored(first, 8500),
                   second |-> scored(second, 8500)]
    /\ UNCHANGED <<registry_vars, session_state, probe, rules_call, threads>>

\* self._handle_fraud_inquiry_fallback(amount, merchant, algorithm)
Fallback ==
    /\ \E amount \in FallbackAmounts, merchant \in Merchants, algorithm \in Algorithms :
          last' = [op |-> "fallback", amount |-> amount, merchant |-> merchant,
                   response |-> _handle_fraud_inquiry_fallback(amount, merchant, algorithm)]
    /\ UNCHANGED <<registry_vars, session_state, probe, rules_call, threads>>

NextDecision == DecideChat \/ Fallback

SpecDecision == InitVector /\ [][NextDecision]_vars

(***************************************************************************)
(* Properties of the chat decision: C29                                    *)
(***************************************************************************)
Severity(decision) ==
    CASE decision = "allow" -> 0 [] decision = "challenge" -> 1 [] decision = "block" -> 2

\* the band of a score: below 0.01, from 0.01 to below 0.05, from 0.05
InBand(result) ==
    /\ result.decision \in {"allow", "challenge", "block"}
    /\ result.decision = "allow" <=> result.score < 100
    /\ result.decision = "challenge" <=> (result.score >= 100 /\ result.score < 500)
    /\ result.decision = "block" <=> result.score >= 500

\* a rule whose floor is at least 0.05 fires for the amount and the merchant
BlockingRuleFires(amount, merchant) ==
    \/ Truthy(merchant) /\ InLower(merchant, "starbucks") /\ amount > 50000
    \/ amount > 1000000
    \/ amount < 10
    \/ Truthy(merchant) /\ (InLower(merchant, "unknown") \/ InLower(merchant, "suspicious"))

C30_InquiryUsesSessionAlgorithm ==
    (InquiryBranch /\ last.trace.scored) =>
       last.trace.predict.algo = SessionAlgorithm(session_state, last.user_id)

====
